---- MODULE Spec2Model ----
(***************************************************************************)
(* Model of the bloonsbench SOL save codec (scripts/decode_saves.py and    *)
(* scripts/encode_decoded_saves.py) and of the tower bookkeeping of the    *)
(* web environment (harness/env/web_env.py, harness/env/menu_nav.py).      *)
(*                                                                         *)
(* Conventions.  A Python bytes object is a sequence of 0..255; a Python   *)
(* str is a sequence of code points (only ASCII text occurs in the model). *)
(* Offsets are 0-based as in the source: buf[offset] is At(buf, offset).   *)
(* A call that may raise returns a record with ok = FALSE and exc = the    *)
(* name of the Python exception class.                                     *)
(***************************************************************************)
EXTENDS Integers, Sequences, FiniteSets, TLC

VARIABLES
    upc,        \* U29 harness: position ("in", "encoded", "done")
    value,      \* U29 harness: the integer handed to the encoder
    enc,        \* U29 harness: result of _encode_u29 / _encode_amf3_int
    tail,       \* U29 harness: bytes that follow the encoded integer in the buffer
    dec,        \* U29 harness: result of the decoder on enc.bytes \o tail
    u_buf,      \* U29 decoder on raw bytes: the buffer
    u_off,      \* U29 decoder on raw bytes: the offset to read at
    u_str,      \* string decoder on raw bytes: result of _decode_amf3_string
    gpc,        \* one entry: position ("in", "decoded", "edited", "encoded", "redecoded")
    g_key,      \* one entry: SaveEntry.key
    g_value,    \* one entry: SaveEntry.value_b64
    g_orig,     \* one entry: the record the decode run wrote for it
    g_entry,    \* one entry: that record as the encode run reads it (after any edit)
    g_edit,     \* one entry: the edit made to the decoded JSON
    g_allow,    \* one entry: --allow-rebuild
    g_apply,    \* one entry: --apply-edits
    g_out,      \* one entry: result of _extract_value_b64
    g_redec,    \* one entry: result of decode_sol_entry on g_out.value
    d_pc,       \* decode run: position in main()
    d_payload,  \* decode run: the input JSON (format and its entries in file order)
    d_include_disabled, \* decode run: --include-disabled
    d_entries,  \* decode run: entries from _load_entries
    d_strict,   \* decode run: --strict
    d_i,        \* decode run: number of entries the loop has taken
    decoded_entries, \* decode run: main()'s list of records
    failures,   \* decode run: main()'s failure count
    d_output,   \* decode run: the document written to output_path
    d_exit,     \* decode run: exit status (-1 while running)
    e_pc,       \* encode run: position in main()
    e_payload,  \* encode run: the "entries" list of the decoded file
    e_include_disabled, \* encode run: --include-disabled
    e_allow,    \* encode run: --allow-rebuild
    e_apply,    \* encode run: --apply-edits
    e_entries,  \* encode run: entries from _load_decoded_entries
    e_i,        \* encode run: number of entries the loop has taken
    save_map,   \* encode run: main()'s dict, as the sequence of its (key, value) items
    rebuild_count, \* encode run: main()'s count of rebuilt entries
    e_file,     \* encode run: the save JSON written to output_path
    e_exit,     \* encode run: exit status (-1 while running)
    w_pc,       \* web env: "idle", or "ready" once reset() has run
    _next_tower_id,   \* web env: BloonsWebEnv._next_tower_id
    _placed_towers,   \* web env: BloonsWebEnv._placed_towers (tower id -> PlacedTower)
    _last_game_state, \* web env: BloonsWebEnv._last_game_state (the cached OCR reading)
    returned_ids,     \* web env: the ids place_tower has returned since reset, in order
    w_last,     \* web env: outcome of the last tower call
    a_pc,       \* agent: position in run_agent ("idle", "llm", "calls", "tick_end")
    actions_this_tick,        \* agent: run_agent's counter of executed tool calls
    round_started_this_tick,  \* agent: run_agent's flag
    a_calls,    \* agent: the tool calls of the current response not yet executed
    m_pc,       \* MCP server: position in run_server ("idle", "serving", "crashed", "closed")
    m_stdin,    \* MCP server: the lines of stdin not yet read
    m_taken,    \* MCP server: the lines read so far, in order
    m_stdout    \* MCP server: the responses written to stdout, in order

uvars == <<upc, value, enc, tail, dec, u_buf, u_off, u_str>>
gvars == <<gpc, g_key, g_value, g_orig, g_entry, g_edit, g_allow, g_apply, g_out, g_redec>>
dvars == <<d_pc, d_payload, d_include_disabled, d_entries, d_strict, d_i, decoded_entries, failures, d_output, d_exit>>
evars == <<e_pc, e_payload, e_include_disabled, e_allow, e_apply, e_entries, e_i,
           save_map, rebuild_count, e_file, e_exit>>
wvars == <<w_pc, _next_tower_id, _placed_towers, _last_game_state, returned_ids, w_last>>
avars == <<a_pc, actions_this_tick, round_started_this_tick, a_calls>>
mvars == <<m_pc, m_stdin, m_taken, m_stdout>>
vars == <<uvars, gvars, dvars, evars, wvars, avars, mvars>>

-----------------------------------------------------------------------------
(* Bounds of the model *)

MaxSmall == 130
MaxVal == 2
MaxEntries == 2
MaxTowerId == 2
MaxUpgrades == 1
MaxBuf == 5
MaxToolCalls == 3
MaxLines == 2

-----------------------------------------------------------------------------
(* Bit operations on non-negative integers, as Python computes them *)

Shr(v, k) == v \div (2 ^ k)
Shl(v, k) == v * (2 ^ k)
BitSet(v, k) == (v \div (2 ^ k)) % 2 = 1
Or80(v) == IF BitSet(v, 7) THEN v ELSE v + 128
At(buf, offset) == buf[offset + 1]

(* F applied to the value of a, which is computed once: TLC evaluates an operator's  *)
(* argument anew at each use in the body, a bound variable holds its value           *)
Bind(F(_), a) == CHOOSE r \in {F(x) : x \in {a}} : TRUE
Slice(buf, from, to) == SubSeq(buf, from + 1, to)

ValueErrorClasses == {"ValueError", "binascii.Error", "JSONDecodeError", "UnicodeDecodeError"}
IsValueError(exc) == exc \in ValueErrorClasses

-----------------------------------------------------------------------------
(* U29 and AMF3 integers *)

Raise(cls) == [ok |-> FALSE, exc |-> cls, bytes |-> <<>>]
Bytes(b) == [ok |-> TRUE, exc |-> "none", bytes |-> b]

(* bug variant: the form is chosen with <= instead of <, so 0x80, 0x4000 and       *)
(* 0x200000 are packed into too few bytes                                          *)
_encode_u29_inclusive(v) ==
    IF v < 0 \/ v > 536870911 THEN Raise("ValueError")
    ELSE IF v <= 128 THEN Bytes(<<v>>)
    ELSE IF v <= 16384 THEN Bytes(<<Or80(Shr(v, 7)), v % 128>>)
    ELSE IF v <= 2097152 THEN
        Bytes(<<Or80(Shr(v, 14)), Or80(Shr(v, 7) % 128), v % 128>>)
    ELSE Bytes(<<Or80(Shr(v, 22) % 128), Or80(Shr(v, 15) % 128),
                 Or80(Shr(v, 8) % 128), v % 256>>)

_encode_u29(v) ==
    IF v < 0 \/ v > 536870911 THEN Raise("ValueError")
    ELSE IF v < 128 THEN Bytes(<<v>>)
    ELSE IF v < 16384 THEN Bytes(<<Or80(Shr(v, 7)), v % 128>>)
    ELSE IF v < 2097152 THEN
        Bytes(<<Or80(Shr(v, 14)), Or80(Shr(v, 7) % 128), v % 128>>)
    ELSE Bytes(<<Or80(Shr(v, 22) % 128), Or80(Shr(v, 15) % 128),
                 Or80(Shr(v, 8) % 128), v % 256>>)

(* bug variant: the negative bias is 2^28 instead of 2^29 *)
_encode_amf3_int_bias28(v) ==
    IF v < -268435456 \/ v > 268435455 THEN Raise("ValueError")
    ELSE IF v < 0 THEN _encode_u29(v + 268435456)
    ELSE _encode_u29(v)

_encode_amf3_int(v) ==
    IF v < -268435456 \/ v > 268435455 THEN Raise("ValueError")
    ELSE IF v < 0 THEN _encode_u29(v + 536870912)
    ELSE _encode_u29(v)

U29Raise == [ok |-> FALSE, exc |-> "ValueError", value |-> 0, offset |-> 0]

RECURSIVE U29Loop(_, _, _, _)
U29Loop(buf, offset, idx, acc) ==
    IF offset >= Len(buf) THEN U29Raise
    ELSE LET b == At(buf, offset) IN
         IF idx < 3 THEN
             LET v == Shl(acc, 7) + (b % 128) IN
             IF ~BitSet(b, 7)
                 THEN [ok |-> TRUE, exc |-> "none", value |-> v, offset |-> offset + 1]
                 ELSE U29Loop(buf, offset + 1, idx + 1, v)
         ELSE [ok |-> TRUE, exc |-> "none", value |-> Shl(acc, 8) + b,
               offset |-> offset + 1]

(* bug variant: every byte, the 4th included, contributes 7 bits *)
RECURSIVE U29Loop7(_, _, _, _)
U29Loop7(buf, offset, idx, acc) ==
    IF offset >= Len(buf) THEN U29Raise
    ELSE LET b == At(buf, offset)
             v == Shl(acc, 7) + (b % 128)
         IN IF idx = 3 \/ ~BitSet(b, 7)
                THEN [ok |-> TRUE, exc |-> "none", value |-> v, offset |-> offset + 1]
                ELSE U29Loop7(buf, offset + 1, idx + 1, v)

_decode_u29_all7(buf, offset) == U29Loop7(buf, offset, 0, 0)

(* bug variant: a 4th byte with its high bit set is refused ("Invalid U29 value") *)
_decode_u29_strict4(buf, offset) ==
    IF offset + 3 < Len(buf) /\ \A i \in 0..3 : BitSet(At(buf, offset + i), 7)
    THEN U29Raise
    ELSE U29Loop(buf, offset, 0, 0)

_decode_u29(buf, offset) == U29Loop(buf, offset, 0, 0)

(* sol_bytes.find(key): the lowest 0-based index of key in buf, or -1 *)
Find(buf, key) ==
    Bind(LAMBDA hits : IF hits = {} THEN -1 ELSE CHOOSE i \in hits : \A j \in hits : i <= j,
         {i \in 0..(Len(buf) - Len(key)) : Slice(buf, i, i + Len(key)) = key})

IntNone == [ok |-> TRUE, exc |-> "none", none |-> TRUE, v |-> 0]
IntSome(n) == [ok |-> TRUE, exc |-> "none", none |-> FALSE, v |-> n]
IntRaise(cls) == [ok |-> FALSE, exc |-> cls, none |-> TRUE, v |-> 0]

(* bug variant: a key that does not occur in the bytes is an error *)
_parse_amf3_int_after_key_absent_raises(sol_bytes, key) ==
    Bind(LAMBDA idx :
        IF idx < 0 THEN IntRaise("ValueError")
        ELSE IF idx + Len(key) >= Len(sol_bytes) \/ At(sol_bytes, idx + Len(key)) # 4
            THEN IntNone
        ELSE Bind(LAMBDA r :
                 IF ~r.ok THEN IntRaise(r.exc)
                 ELSE IF BitSet(r.value, 28) THEN IntSome(r.value - 536870912)
                 ELSE IntSome(r.value),
                 _decode_u29(sol_bytes, idx + Len(key) + 1)),
        Find(sol_bytes, key))

_parse_amf3_int_after_key(sol_bytes, key) ==
    Bind(LAMBDA idx :
        IF idx < 0 THEN IntNone
        ELSE IF idx + Len(key) >= Len(sol_bytes) \/ At(sol_bytes, idx + Len(key)) # 4
            THEN IntNone
        ELSE Bind(LAMBDA r :
                 IF ~r.ok THEN IntRaise(r.exc)
                 ELSE IF BitSet(r.value, 28) THEN IntSome(r.value - 536870912)
                 ELSE IntSome(r.value),
                 _decode_u29(sol_bytes, idx + Len(key) + 1)),
        Find(sol_bytes, key))

-----------------------------------------------------------------------------
(* ASCII text used by the codec *)

K_data == <<100, 97, 116, 97>>
K_glevel == <<103, 108, 101, 118, 101, 108>>
K_gcash == <<103, 99, 97, 115, 104>>
K_gxp == <<103, 120, 112>>
K_gnum == <<103, 110, 117, 109>>

-----------------------------------------------------------------------------
(* base64 (library): b64encode, and b64decode as binascii.a2b_base64 does it *)
(* in its default non-strict mode                                            *)

B64Char(v) ==
    IF v < 26 THEN 65 + v
    ELSE IF v < 52 THEN 71 + v
    ELSE IF v < 62 THEN v - 4
    ELSE IF v = 62 THEN 43 ELSE 47

B64Val(c) ==
    IF c >= 65 /\ c <= 90 THEN c - 65
    ELSE IF c >= 97 /\ c <= 122 THEN c - 71
    ELSE IF c >= 48 /\ c <= 57 THEN c + 4
    ELSE IF c = 43 THEN 62
    ELSE IF c = 47 THEN 63 ELSE 64

(* byte k (1-based) of the bytes that the 6-bit values vals spell *)
B64Byte(vals, k) ==
    LET g == 4 * ((k - 1) \div 3)
        r == (k - 1) % 3
    IN IF r = 0 THEN (vals[g + 1] * 4) + (vals[g + 2] \div 16)
       ELSE IF r = 1 THEN ((vals[g + 2] % 16) * 16) + (vals[g + 3] \div 4)
       ELSE ((vals[g + 3] % 4) * 64) + vals[g + 4]

(* character k (1-based) of the base64 text of b, '=' where the last group is short *)
B64EncChar(b, k) ==
    LET g == 3 * ((k - 1) \div 4)
        r == (k - 1) % 4
        byte(j) == IF g + j <= Len(b) THEN b[g + j] ELSE 0
    IN IF r = 0 THEN B64Char(byte(1) \div 4)
       ELSE IF r = 1 THEN B64Char(((byte(1) % 4) * 16) + (byte(2) \div 16))
       ELSE IF r = 2 THEN
           (IF g + 2 > Len(b) THEN 61 ELSE B64Char(((byte(2) % 16) * 4) + (byte(3) \div 64)))
       ELSE (IF g + 3 > Len(b) THEN 61 ELSE B64Char(byte(3) % 64))

(* SubSeq of the whole turns the function into the sequence it is *)
AsSeq(f, n) == SubSeq(f, 1, n)

b64encode(b) ==
    Bind(LAMBDA bytes :
            LET n == 4 * ((Len(bytes) + 2) \div 3)
            IN AsSeq([k \in 1..n |-> B64EncChar(bytes, k)], n),
         b)

IsB64Data(c) == B64Val(c) < 64

(* a2b_base64, non-strict: characters outside the alphabet are skipped; a '=' met   *)
(* at quad position >= 2 that completes the quad with the '=' seen since the last   *)
(* data character ends the input; input that ends inside a quad is an error.        *)
B64Stop(s) ==
    LET quad(i) == Len(SelectSeq(SubSeq(s, 1, i - 1), IsB64Data)) % 4
        lastData(i) ==
            Bind(LAMBDA ds : IF ds = {} THEN 0 ELSE CHOOSE j \in ds : \A m \in ds : m <= j,
                 {j \in 1..(i - 1) : IsB64Data(s[j])})
        pads(i) == Cardinality({j \in (lastData(i) + 1)..i : s[j] = 61})
    IN Bind(LAMBDA stops :
               IF stops = {} THEN Len(s) + 1
               ELSE CHOOSE i \in stops : \A j \in stops : i <= j,
            {i \in 1..Len(s) : s[i] = 61 /\ quad(i) >= 2 /\ quad(i) + pads(i) >= 4})

b64decode(s) ==
    Bind(LAMBDA text :
      Bind(LAMBDA stop :
        Bind(LAMBDA vals :
               LET rem == Len(vals) % 4
                   n == (3 * (Len(vals) \div 4)) + (IF rem = 0 THEN 0 ELSE rem - 1)
               IN IF stop > Len(text) /\ rem # 0 THEN Raise("binascii.Error")
                  ELSE IF rem = 1 THEN Raise("binascii.Error")
                  ELSE Bytes(AsSeq([k \in 1..n |-> B64Byte(vals, k)], n)),
             Bind(LAMBDA data : AsSeq([k \in 1..Len(data) |-> B64Val(data[k])], Len(data)),
                  SelectSeq(SubSeq(text, 1, stop - 1), IsB64Data))),
        B64Stop(text)),
      s)

-----------------------------------------------------------------------------
(* zlib (library).  compress is modelled as the stored-block zlib stream     *)
(* (what zlib.compress(data, 0) emits): header 78 01, one final stored block *)
(* with LEN/NLEN, the data, the big-endian Adler-32.  decompress inverts     *)
(* exactly these streams and raises zlib.error on anything else; Huffman     *)
(* blocks are outside the model.                                             *)

RECURSIVE AdlerFrom(_, _, _, _)
AdlerFrom(data, i, a, b) ==
    IF i > Len(data) THEN <<a, b>>
    ELSE LET a2 == (a + data[i]) % 65521 IN AdlerFrom(data, i + 1, a2, (b + a2) % 65521)

Adler32Bytes(data) ==
    Bind(LAMBDA ab : <<ab[2] \div 256, ab[2] % 256, ab[1] \div 256, ab[1] % 256>>,
         AdlerFrom(data, 1, 1, 0))

zlib_compress(data) ==
    Bind(LAMBDA d :
            LET n == Len(d) IN
            <<120, 1, 1, n % 256, n \div 256, 255 - (n % 256), 255 - (n \div 256)>>
                \o d \o Adler32Bytes(d),
         data)

zlib_decompress(z) ==
    IF Len(z) < 11 THEN Raise("zlib.error")
    ELSE LET n == z[4] + (256 * z[5]) IN
         IF \/ z[1] # 120 \/ z[2] # 1 \/ z[3] # 1
            \/ z[6] # 255 - z[4] \/ z[7] # 255 - z[5]
            \/ Len(z) < 11 + n
         THEN Raise("zlib.error")
         ELSE Bind(LAMBDA data :
                      IF SubSeq(z, 8 + n, 11 + n) # Adler32Bytes(data)
                          THEN Raise("zlib.error")
                          ELSE Bytes(data),
                   SubSeq(z, 8, 7 + n))

-----------------------------------------------------------------------------
(* UTF-8 on the model's text: ASCII code points encode to themselves; a byte *)
(* of 0x80 or more (the model's inputs only hold 0xFF there, never valid in  *)
(* UTF-8) makes bytes.decode raise UnicodeDecodeError.                       *)

utf8_encode(text) == text

utf8_decode(b) ==
    IF \E i \in 1..Len(b) : b[i] >= 128 THEN Raise("UnicodeDecodeError") ELSE Bytes(b)

-----------------------------------------------------------------------------
(* AMF3 strings *)

StrRaise(cls) == [ok |-> FALSE, exc |-> cls, text |-> <<>>, end |-> 0]

_decode_amf3_string_any_header(buf, offset) ==
    IF offset >= Len(buf) \/ At(buf, offset) # 6 THEN StrRaise("ValueError")
    ELSE Bind(LAMBDA r :
         IF ~r.ok THEN StrRaise(r.exc)
         ELSE LET strlen == Shr(r.value, 1)
                  end == r.offset + strlen
              IN IF end > Len(buf) THEN StrRaise("ValueError")
                 ELSE Bind(LAMBDA t :
                              IF ~t.ok THEN StrRaise(t.exc)
                              ELSE [ok |-> TRUE, exc |-> "none", text |-> t.bytes,
                                    end |-> end],
                           utf8_decode(Slice(buf, r.offset, end))),
         _decode_u29(buf, offset + 1))

_decode_amf3_string(buf, offset) ==
    IF offset >= Len(buf) \/ At(buf, offset) # 6 THEN StrRaise("ValueError")
    ELSE Bind(LAMBDA r :
         IF ~r.ok THEN StrRaise(r.exc)
         ELSE IF r.value % 2 = 0 THEN StrRaise("ValueError")
         ELSE LET strlen == Shr(r.value, 1)
                  end == r.offset + strlen
              IN IF end > Len(buf) THEN StrRaise("ValueError")
                 ELSE Bind(LAMBDA t :
                              IF ~t.ok THEN StrRaise(t.exc)
                              ELSE [ok |-> TRUE, exc |-> "none", text |-> t.bytes,
                                    end |-> end],
                           utf8_decode(Slice(buf, r.offset, end))),
         _decode_u29(buf, offset + 1))

_encode_amf3_utf8_vr(text, with_marker) ==
    Bind(LAMBDA raw :
      Bind(LAMBDA h :
             IF ~h.ok THEN h
             ELSE IF with_marker THEN Bytes(<<6>> \o h.bytes \o raw)
             ELSE Bytes(h.bytes \o raw),
           _encode_u29(Shl(Len(raw), 1) + 1)),
      utf8_encode(text))

-----------------------------------------------------------------------------
(* JSON values and the json library on them.  A value is a record           *)
(* [kind, items]: an object holds its members <<key, int>> in insertion      *)
(* order (keys are single lower-case letters, values one-digit integers), an *)
(* array holds <<0, int>> per element, "int" holds one <<0, int>>; "absent"  *)
(* stands for a key that the dict does not hold (dict.get gives None).       *)

JNull == [kind |-> "null", items |-> <<>>]
JAbsent == [kind |-> "absent", items |-> <<>>]
JInt(v) == [kind |-> "int", items |-> << <<0, v>> >>]
JArr(items) == [kind |-> "arr", items |-> items]
JObj(items) == [kind |-> "obj", items |-> items]
IsDict(j) == j.kind = "obj"

T_null == <<110, 117, 108, 108>>

RECURSIVE DumpMembers(_, _)
DumpMembers(items, i) ==
    IF i > Len(items) THEN <<>>
    ELSE (IF i > 1 THEN <<44>> ELSE <<>>)
         \o <<34, items[i][1], 34, 58, 48 + items[i][2]>> \o DumpMembers(items, i + 1)

RECURSIVE DumpElems(_, _)
DumpElems(items, i) ==
    IF i > Len(items) THEN <<>>
    ELSE (IF i > 1 THEN <<44>> ELSE <<>>) \o <<48 + items[i][2]>> \o DumpElems(items, i + 1)

(* json.dumps(value, separators=(",", ":"), ensure_ascii=False) *)
json_dumps(j) ==
    IF j.kind = "obj" THEN <<123>> \o DumpMembers(j.items, 1) \o <<125>>
    ELSE IF j.kind = "arr" THEN <<91>> \o DumpElems(j.items, 1) \o <<93>>
    ELSE IF j.kind = "int" THEN <<48 + j.items[1][2]>>
    ELSE T_null

RECURSIVE InsertByKey(_, _)
InsertByKey(sorted, m) ==
    IF sorted = <<>> THEN <<m>>
    ELSE IF m[1] < Head(sorted)[1] THEN <<m>> \o sorted
    ELSE <<Head(sorted)>> \o InsertByKey(Tail(sorted), m)

RECURSIVE SortByKey(_)
SortByKey(items) ==
    IF items = <<>> THEN <<>>
    ELSE InsertByKey(SortByKey(SubSeq(items, 1, Len(items) - 1)), items[Len(items)])

(* json.dumps(value, sort_keys=True, separators=(",", ":"), ensure_ascii=False) *)
_norm_json(j) ==
    IF j.kind = "obj" THEN json_dumps(JObj(SortByKey(j.items))) ELSE json_dumps(j)

JRaise == [ok |-> FALSE, exc |-> "JSONDecodeError", json |-> JNull]
JOk(j) == [ok |-> TRUE, exc |-> "none", json |-> j]
IsDigit(c) == c >= 48 /\ c <= 57
IsKeyChar(c) == c >= 97 /\ c <= 122

(* dict assignment: a repeated key keeps its position and takes the last value *)
ObjPut(items, k, v) ==
    IF \E i \in 1..Len(items) : items[i][1] = k
        THEN AsSeq([i \in 1..Len(items) |-> IF items[i][1] = k THEN <<k, v>> ELSE items[i]],
                   Len(items))
        ELSE Append(items, <<k, v>>)

RECURSIVE ParseMembers(_, _, _)
ParseMembers(t, pos, acc) ==
    IF Len(t) < pos + 6 THEN JRaise
    ELSE IF \/ At(t, pos) # 34 \/ ~IsKeyChar(At(t, pos + 1)) \/ At(t, pos + 2) # 34
            \/ At(t, pos + 3) # 58 \/ ~IsDigit(At(t, pos + 4))
        THEN JRaise
    ELSE Bind(LAMBDA acc2 :
         IF At(t, pos + 5) = 125
             THEN (IF Len(t) = pos + 6 THEN JOk(JObj(acc2)) ELSE JRaise)
         ELSE IF At(t, pos + 5) = 44 THEN ParseMembers(t, pos + 6, acc2)
         ELSE JRaise,
         ObjPut(acc, At(t, pos + 1), At(t, pos + 4) - 48))

RECURSIVE ParseElems(_, _, _)
ParseElems(t, pos, acc) ==
    IF Len(t) < pos + 2 THEN JRaise
    ELSE IF ~IsDigit(At(t, pos)) THEN JRaise
    ELSE Bind(LAMBDA acc2 :
         IF At(t, pos + 1) = 93
             THEN (IF Len(t) = pos + 2 THEN JOk(JArr(acc2)) ELSE JRaise)
         ELSE IF At(t, pos + 1) = 44 THEN ParseElems(t, pos + 2, acc2)
         ELSE JRaise,
         Append(acc, <<0, At(t, pos) - 48>>))

(* json.loads on the texts of the model: null, one digit, an array of digits, an  *)
(* object of "k":digit members, without white space; any other text of the model's *)
(* inputs is not JSON and raises JSONDecodeError                                   *)
json_loads(t) ==
    IF t = T_null THEN JOk(JNull)
    ELSE IF Len(t) = 1 /\ IsDigit(t[1]) THEN JOk(JInt(t[1] - 48))
    ELSE IF t = <<123, 125>> THEN JOk(JObj(<<>>))
    ELSE IF t = <<91, 93>> THEN JOk(JArr(<<>>))
    ELSE IF Len(t) >= 1 /\ t[1] = 123 THEN ParseMembers(t, 1, <<>>)
    ELSE IF Len(t) >= 1 /\ t[1] = 91 THEN ParseElems(t, 1, <<>>)
    ELSE JRaise

(* str(n) of an integer, for json.dumps of the outer fields *)
RECURSIVE NatText(_)
NatText(n) == IF n < 10 THEN <<48 + n>> ELSE NatText(n \div 10) \o <<48 + (n % 10)>>
IntText(n) == IF n < 0 THEN <<45>> \o NatText(-n) ELSE NatText(n)

-----------------------------------------------------------------------------
(* Decoded entries (the dicts of the decoded JSON document).  A dict key that *)
(* may be missing or hold a value of another type carries a state "st".       *)

Str(v) == [st |-> "str", v |-> v]
Absent == [st |-> "absent", v |-> <<>>]
NullStr == [st |-> "null", v |-> <<>>]
FInt(n) == [st |-> "int", v |-> n]
FNull == [st |-> "null", v |-> 0]
FMissing == [st |-> "missing", v |-> 0]
OuterDict(gl, gc, gx, gn) ==
    [st |-> "dict", glevel |-> gl, gcash |-> gc, gxp |-> gx, gnum |-> gn]
EmptyOuter == OuterDict(FMissing, FMissing, FMissing, FMissing)
NoOuter == [EmptyOuter EXCEPT !.st = "absent"]
NoContainer ==
    [compressed_b64_length |-> -1, zlib_payload_length |-> -1,
     decompressed_length |-> -1, inner_json_length |-> -1]

EmptyEntry ==
    [entry_key |-> Absent,
     has_raw_sol |-> FALSE, raw_value |-> Absent, bytes_length |-> -1,
     value_b64 |-> Absent,
     outer |-> NoOuter,
     data_container |-> NoContainer,
     profile_json_text |-> Absent,
     profile |-> JAbsent,
     enabled |-> "absent",
     error |-> "none"]

(* int | None as returned by _parse_amf3_int_after_key, stored in a dict *)
OptField(r) == IF r.none THEN FNull ELSE FInt(r.v)

-----------------------------------------------------------------------------
(* SOL Encoder *)

(* entry_key.rsplit("/", 1)[-1] *)
RSplitLast(key) ==
    Bind(LAMBDA slashes :
            IF slashes = {} THEN key
            ELSE SubSeq(key, (CHOOSE i \in slashes : \A j \in slashes : j <= i) + 1, Len(key)),
         {i \in 1..Len(key) : key[i] = 47})

(* int(outer_ud_fields.get(name, 0)) *)
PyInt(f) ==
    IF f.st = "missing" THEN IntSome(0)
    ELSE IF f.st = "null" THEN IntRaise("TypeError")
    ELSE IntSome(f.v)

ToBytes2(n) == <<n \div 256, n % 256>>
(* bug variant: the length is written little-endian *)
ToBytes4LittleEndian(n) ==
    <<n % 256, (n \div 256) % 256, (n \div 65536) % 256, n \div 16777216>>

ToBytes4(n) == <<n \div 16777216, (n \div 65536) % 256, (n \div 256) % 256, n % 256>>

IntField(key, n) == _encode_amf3_utf8_vr(key, FALSE).bytes \o <<4>> \o n

_encode_sol_entry(entry_key, profile, outer) ==
    Bind(LAMBDA inner :
      IF ~inner.ok THEN inner ELSE
      LET glevel == PyInt(outer.glevel)
          gcash == PyInt(outer.gcash)
          gxp == PyInt(outer.gxp)
          gnum == PyInt(outer.gnum)
      IN IF ~glevel.ok THEN Raise(glevel.exc)
         ELSE IF ~gcash.ok THEN Raise(gcash.exc)
         ELSE IF ~gxp.ok THEN Raise(gxp.exc)
         ELSE IF ~gnum.ok THEN Raise(gnum.exc)
         ELSE
      Bind(LAMBDA so_name_bytes :
        IF Len(so_name_bytes) > 65535 THEN Raise("OverflowError") ELSE
        Bind(LAMBDA data_b64 :
          Bind(LAMBDA vdata :
            LET eglevel == _encode_amf3_int(glevel.v)
                egcash == _encode_amf3_int(gcash.v)
                egxp == _encode_amf3_int(gxp.v)
                egnum == _encode_amf3_int(gnum.v)
            IN IF ~vdata.ok THEN vdata
               ELSE IF ~eglevel.ok THEN eglevel
               ELSE IF ~egcash.ok THEN egcash
               ELSE IF ~egxp.ok THEN egxp
               ELSE IF ~egnum.ok THEN egnum
               ELSE
            Bind(LAMBDA body :
                   Bytes(b64encode(<<0, 191>> \o ToBytes4(Len(body)) \o body)),
                 <<84, 67, 83, 79>> \o <<0, 4>> \o <<0, 0, 0, 0>>
                   \o ToBytes2(Len(so_name_bytes)) \o so_name_bytes
                   \o <<0, 0, 0, 3>> \o <<5, 117, 100, 10, 11, 1>>
                   \o _encode_amf3_utf8_vr(K_data, FALSE).bytes \o vdata.bytes
                   \o IntField(K_glevel, eglevel.bytes) \o IntField(K_gcash, egcash.bytes)
                   \o IntField(K_gxp, egxp.bytes) \o IntField(K_gnum, egnum.bytes)
                   \o <<1, 0>>),
            _encode_amf3_utf8_vr(data_b64, TRUE)),
          b64encode(zlib_compress(inner.bytes))),
        utf8_encode(RSplitLast(entry_key))),
      _encode_amf3_utf8_vr(json_dumps(profile), TRUE))

-----------------------------------------------------------------------------
(* SOL Decoder.  encode_decoded_saves.py carries its own copies of           *)
(* _decode_u29, _decode_amf3_string and _parse_amf3_int_after_key; they are  *)
(* line for line the ones of decode_saves.py and share the operators above.  *)

_extract_outer_data_string(sol_bytes) ==
    Bind(LAMBDA idx :
            IF idx < 0 THEN StrRaise("ValueError")
            ELSE _decode_amf3_string(sol_bytes, idx + 4),
         Find(sol_bytes, K_data))

DecRaise(cls) == [ok |-> FALSE, exc |-> cls, entry |-> EmptyEntry]

decode_sol_entry(key, value_b64) ==
    Bind(LAMBDA sol :
      IF ~sol.ok THEN DecRaise(sol.exc) ELSE
    Bind(LAMBDA data :
      IF ~data.ok THEN DecRaise(data.exc) ELSE
    Bind(LAMBDA zp :
      IF ~zp.ok THEN DecRaise(zp.exc) ELSE
    Bind(LAMBDA inner :
      IF ~inner.ok THEN DecRaise(inner.exc) ELSE
    Bind(LAMBDA pj :
      IF ~pj.ok THEN DecRaise(pj.exc) ELSE
    Bind(LAMBDA prof :
      IF ~prof.ok THEN DecRaise(prof.exc) ELSE
    Bind(LAMBDA gl :
      IF ~gl.ok THEN DecRaise(gl.exc) ELSE
    Bind(LAMBDA gc :
      IF ~gc.ok THEN DecRaise(gc.exc) ELSE
    Bind(LAMBDA gx :
      IF ~gx.ok THEN DecRaise(gx.exc) ELSE
    Bind(LAMBDA gn :
      IF ~gn.ok THEN DecRaise(gn.exc) ELSE
      [ok |-> TRUE, exc |-> "none",
       entry |->
         [entry_key |-> Str(key),
          has_raw_sol |-> TRUE, raw_value |-> Str(value_b64),
          bytes_length |-> Len(sol.bytes),
          value_b64 |-> Absent,
          outer |-> OuterDict(OptField(gl), OptField(gc), OptField(gx), OptField(gn)),
          data_container |->
            [compressed_b64_length |-> Len(data.text),
             zlib_payload_length |-> Len(zp.bytes),
             decompressed_length |-> Len(inner.bytes),
             inner_json_length |-> Len(pj.text)],
          profile_json_text |-> Str(pj.text),
          profile |-> prof.json,
          enabled |-> "absent",
          error |-> "none"]],
      _parse_amf3_int_after_key(sol.bytes, K_gnum)),
      _parse_amf3_int_after_key(sol.bytes, K_gxp)),
      _parse_amf3_int_after_key(sol.bytes, K_gcash)),
      _parse_amf3_int_after_key(sol.bytes, K_glevel)),
      json_loads(pj.text)),
      _decode_amf3_string(inner.bytes, 0)),
      zlib_decompress(zp.bytes)),
      b64decode(data.text)),
      _extract_outer_data_string(sol.bytes)),
      b64decode(value_b64))

RawRaise(cls) == [ok |-> FALSE, exc |-> cls, profile |-> JNull, outer |-> NoOuter]

_extract_profile_from_raw(value_b64) ==
    Bind(LAMBDA sol :
      IF ~sol.ok THEN RawRaise(sol.exc) ELSE
    Bind(LAMBDA idx :
      IF idx < 0 THEN RawRaise("ValueError") ELSE
    Bind(LAMBDA data :
      IF ~data.ok THEN RawRaise(data.exc) ELSE
    Bind(LAMBDA zp :
      IF ~zp.ok THEN RawRaise(zp.exc) ELSE
    Bind(LAMBDA inner :
      IF ~inner.ok THEN RawRaise(inner.exc) ELSE
    Bind(LAMBDA pj :
      IF ~pj.ok THEN RawRaise(pj.exc) ELSE
    Bind(LAMBDA prof :
      IF ~prof.ok THEN RawRaise(prof.exc) ELSE
    Bind(LAMBDA gl :
      IF ~gl.ok THEN RawRaise(gl.exc) ELSE
    Bind(LAMBDA gc :
      IF ~gc.ok THEN RawRaise(gc.exc) ELSE
    Bind(LAMBDA gx :
      IF ~gx.ok THEN RawRaise(gx.exc) ELSE
    Bind(LAMBDA gn :
      IF ~gn.ok THEN RawRaise(gn.exc) ELSE
      [ok |-> TRUE, exc |-> "none", profile |-> prof.json,
       outer |-> OuterDict(OptField(gl), OptField(gc), OptField(gx), OptField(gn))],
      _parse_amf3_int_after_key(sol.bytes, K_gnum)),
      _parse_amf3_int_after_key(sol.bytes, K_gxp)),
      _parse_amf3_int_after_key(sol.bytes, K_gcash)),
      _parse_amf3_int_after_key(sol.bytes, K_glevel)),
      json_loads(pj.text)),
      _decode_amf3_string(inner.bytes, 0)),
      zlib_decompress(zp.bytes)),
      b64decode(data.text)),
      _decode_amf3_string(sol.bytes, idx + 4)),
      Find(sol.bytes, K_data)),
      b64decode(value_b64))

-----------------------------------------------------------------------------
(* Integrity guard *)

(* outer.get(name): a missing key reads as None *)
DictGet(f) == IF f.st = "int" THEN f ELSE FNull

FieldText(f) == IF f.st = "int" THEN IntText(f.v) ELSE T_null

(* _norm_json of {"glevel":..,"gcash":..,"gxp":..,"gnum":..}: keys sorted *)
NormOuter(o) ==
    <<123, 34>> \o K_gcash \o <<34, 58>> \o FieldText(DictGet(o.gcash))
    \o <<44, 34>> \o K_glevel \o <<34, 58>> \o FieldText(DictGet(o.glevel))
    \o <<44, 34>> \o K_gnum \o <<34, 58>> \o FieldText(DictGet(o.gnum))
    \o <<44, 34>> \o K_gxp \o <<34, 58>> \o FieldText(DictGet(o.gxp)) \o <<125>>

ExtRaise(cls) == [ok |-> FALSE, exc |-> cls, value |-> <<>>, mode |-> "none"]
ExtOk(v, m) == [ok |-> TRUE, exc |-> "none", value |-> v, mode |-> m]

IsNonEmptyStr(x) == x.st = "str" /\ x.v # <<>>

(* the rebuild call of both rebuild paths: outer defaults to {} when not a dict *)
Rebuild(key, entry, mode) ==
    Bind(LAMBDA r : IF r.ok THEN ExtOk(r.bytes, mode) ELSE ExtRaise(r.exc),
         _encode_sol_entry(key, entry.profile,
                           IF entry.outer.st = "dict" THEN entry.outer ELSE EmptyOuter))

(* bug variant: sort_keys is left out on the raw side of the profile comparison *)
GuardrailRawUnsorted(entry, value_b64) ==
    Bind(LAMBDA raw :
        IF ~raw.ok THEN
            (IF IsValueError(raw.exc) THEN ExtRaise(raw.exc) ELSE ExtOk(value_b64, "lossless"))
        ELSE IF json_dumps(raw.profile) # _norm_json(entry.profile) THEN ExtRaise("ValueError")
        ELSE IF entry.outer.st = "dict" /\ NormOuter(raw.outer) # NormOuter(entry.outer)
            THEN ExtRaise("ValueError")
        ELSE ExtOk(value_b64, "lossless"),
        _extract_profile_from_raw(value_b64))

(* the guardrail of the lossless path, for an entry whose profile is a dict *)
Guardrail(entry, value_b64) ==
    Bind(LAMBDA raw :
        IF ~raw.ok THEN
            (IF IsValueError(raw.exc) THEN ExtRaise(raw.exc) ELSE ExtOk(value_b64, "lossless"))
        ELSE IF _norm_json(raw.profile) # _norm_json(entry.profile) THEN ExtRaise("ValueError")
        ELSE IF entry.outer.st = "dict" /\ NormOuter(raw.outer) # NormOuter(entry.outer)
            THEN ExtRaise("ValueError")
        ELSE ExtOk(value_b64, "lossless"),
        _extract_profile_from_raw(value_b64))

(* bug variant: the legacy rebuild goes ahead without the entry_key / profile check *)
_extract_value_b64_unchecked_rebuild(entry, allow_rebuild, apply_edits) ==
    IF entry.has_raw_sol /\ IsNonEmptyStr(entry.raw_value) THEN
        IF apply_edits /\ IsDict(entry.profile) THEN
            IF entry.entry_key.st = "absent" THEN ExtRaise("KeyError")
            ELSE Rebuild(entry.entry_key.v, entry, "rebuilt_from_edits")
        ELSE IF IsDict(entry.profile) THEN Guardrail(entry, entry.raw_value.v)
        ELSE ExtOk(entry.raw_value.v, "lossless")
    ELSE IF IsNonEmptyStr(entry.value_b64) THEN ExtOk(entry.value_b64.v, "lossless")
    ELSE IF ~allow_rebuild THEN ExtRaise("ValueError")
    ELSE Rebuild(entry.entry_key.v, entry, "rebuilt")

(* bug variant: apply-edits also stands in for allow-rebuild *)
_extract_value_b64_apply_allows(entry, allow_rebuild, apply_edits) ==
    IF entry.has_raw_sol /\ IsNonEmptyStr(entry.raw_value) THEN
        IF apply_edits /\ IsDict(entry.profile) THEN
            IF entry.entry_key.st = "absent" THEN ExtRaise("KeyError")
            ELSE Rebuild(entry.entry_key.v, entry, "rebuilt_from_edits")
        ELSE IF IsDict(entry.profile) THEN Guardrail(entry, entry.raw_value.v)
        ELSE ExtOk(entry.raw_value.v, "lossless")
    ELSE IF IsNonEmptyStr(entry.value_b64) THEN ExtOk(entry.value_b64.v, "lossless")
    ELSE IF ~allow_rebuild /\ ~apply_edits THEN ExtRaise("ValueError")
    ELSE IF entry.entry_key.st # "str" \/ ~IsDict(entry.profile) THEN ExtRaise("ValueError")
    ELSE Rebuild(entry.entry_key.v, entry, "rebuilt")

_extract_value_b64(entry, allow_rebuild, apply_edits) ==
    IF entry.has_raw_sol /\ IsNonEmptyStr(entry.raw_value) THEN
        IF apply_edits /\ IsDict(entry.profile) THEN
            IF entry.entry_key.st = "absent" THEN ExtRaise("KeyError")
            ELSE Rebuild(entry.entry_key.v, entry, "rebuilt_from_edits")
        ELSE IF IsDict(entry.profile) THEN Guardrail(entry, entry.raw_value.v)
        ELSE ExtOk(entry.raw_value.v, "lossless")
    ELSE IF IsNonEmptyStr(entry.value_b64) THEN ExtOk(entry.value_b64.v, "lossless")
    ELSE IF ~allow_rebuild THEN ExtRaise("ValueError")
    ELSE IF entry.entry_key.st # "str" \/ ~IsDict(entry.profile) THEN ExtRaise("ValueError")
    ELSE Rebuild(entry.entry_key.v, entry, "rebuilt")

-----------------------------------------------------------------------------
(* The record that main() of decode_saves.py appends for one loaded entry     *)
(* (the entry's "meta" is copied through unchanged and is left out)           *)

(* raw_len of the error record: None (-1) when the base64 itself is bad *)
RawLen(value_b64) ==
    Bind(LAMBDA r : IF r.ok THEN Len(r.bytes) ELSE -1, b64decode(value_b64))

(* bug variant: the error record does not carry the entry's raw value *)
ErrorEntryWithoutRaw(key, value_b64, enabled, exc) ==
    [EmptyEntry EXCEPT !.entry_key = Str(key),
                       !.enabled = IF enabled THEN "true" ELSE "false",
                       !.error = exc]

ErrorEntry(key, value_b64, enabled, exc) ==
    [EmptyEntry EXCEPT !.entry_key = Str(key),
                       !.enabled = IF enabled THEN "true" ELSE "false",
                       !.has_raw_sol = TRUE,
                       !.raw_value = Str(value_b64),
                       !.bytes_length = RawLen(value_b64),
                       !.error = exc]

DecodedRecord(key, value_b64, enabled) ==
    Bind(LAMBDA r :
            IF r.ok THEN [r.entry EXCEPT !.enabled = IF enabled THEN "true" ELSE "false"]
            ELSE ErrorEntry(key, value_b64, enabled, r.exc),
         decode_sol_entry(key, value_b64))

-----------------------------------------------------------------------------
(* Input domain: SOL blobs as the game writes them (the container layout of   *)
(* the Encoder, with any subset and order of the integer fields), and blobs   *)
(* damaged in each way the Decoder can reject                                 *)

GameField(f) == _encode_amf3_utf8_vr(f[1], FALSE).bytes \o <<4>> \o _encode_amf3_int(f[2]).bytes

RECURSIVE GameFields(_)
GameFields(fs) == IF fs = <<>> THEN <<>> ELSE GameField(Head(fs)) \o GameFields(Tail(fs))

GameBytes(name, dataKey, dataValue, fs) ==
    Bind(LAMBDA body : <<0, 191>> \o ToBytes4(Len(body)) \o body,
         <<84, 67, 83, 79>> \o <<0, 4>> \o <<0, 0, 0, 0>>
           \o ToBytes2(Len(name)) \o name
           \o <<0, 0, 0, 3>> \o <<5, 117, 100, 10, 11, 1>>
           \o _encode_amf3_utf8_vr(dataKey, FALSE).bytes \o dataValue
           \o GameFields(fs) \o <<1, 0>>)

(* the marked "data" string holding base64(zlib(inner)) *)
DataOf(inner) == _encode_amf3_utf8_vr(b64encode(zlib_compress(inner)), TRUE).bytes
InnerOf(text) == _encode_amf3_utf8_vr(text, TRUE).bytes

N_u == <<117>>
J_a1 == <<123, 34, 97, 34, 58, 49, 125>>
J_b2a1 == <<123, 34, 98, 34, 58, 50, 44, 34, 97, 34, 58, 49, 125>>
J_list == <<91, 49, 93>>
AllFields == << <<K_glevel, 5>>, <<K_gcash, 1000>>, <<K_gxp, -1>>, <<K_gnum, 0>> >>
SomeFields == << <<K_gnum, 1>>, <<K_glevel, 5>> >>

B_good == b64encode(GameBytes(N_u, K_data, DataOf(InnerOf(J_a1)), AllFields))
B_partial == b64encode(GameBytes(N_u, K_data, DataOf(InnerOf(J_b2a1)), SomeFields))
B_list == b64encode(GameBytes(N_u, K_data, DataOf(InnerOf(J_list)), AllFields))
B_trunc == Bind(LAMBDA b : SubSeq(b, 1, Len(b) - 3), B_good)
B_nodata == b64encode(GameBytes(N_u, <<100, 97, 116, 95>>, DataOf(InnerOf(J_a1)), AllFields))
B_badzlib ==
    b64encode(GameBytes(N_u, K_data,
        _encode_amf3_utf8_vr(b64encode(<<120, 1, 1, 0>>), TRUE).bytes, AllFields))
B_badjson == b64encode(GameBytes(N_u, K_data, DataOf(InnerOf(<<123>>)), AllFields))
B_refmode == b64encode(GameBytes(N_u, K_data, <<6, 4, 65, 65>>, AllFields))
B_badutf == b64encode(GameBytes(N_u, K_data, DataOf(<<6, 3, 255>>), AllFields))
B_cutint ==
    Bind(LAMBDA b : b64encode(SubSeq(b, 1, Len(b) - 3)),
         GameBytes(N_u, K_data, DataOf(InnerOf(J_a1)), << <<K_gnum, 0>> >>))
B_empty == <<>>

(* containers like B_good from which the key bytes of some outer fields are absent *)
FieldKey == [glevel |-> K_glevel, gcash |-> K_gcash, gxp |-> K_gxp, gnum |-> K_gnum]
FieldNames == {"glevel", "gcash", "gxp", "gnum"}
MissingSets == {{"glevel"}, {"gcash"}, {"gxp"}, {"gnum"}, {"gcash", "gxp"}, FieldNames}
FieldsWithout(S) ==
    LET Present(f) == \A n \in S : FieldKey[n] # f[1] IN SelectSeq(AllFields, Present)
B_without ==
    [S \in MissingSets |->
        b64encode(GameBytes(N_u, K_data, DataOf(InnerOf(J_a1)), FieldsWithout(S)))]

GoodBlobs == {B_good, B_partial, B_list} \cup {B_without[S] : S \in MissingSets}
BadBlobs == {B_trunc, B_nodata, B_badzlib, B_badjson, B_refmode, B_badutf, B_cutint, B_empty}
InputBlobs == GoodBlobs \cup BadBlobs

(* entry keys: "s/u", "s/data" (the object name holds the bytes "data"), "gxp" *)
Key_su == <<115, 47, 117>>
Key_sdata == <<115, 47, 100, 97, 116, 97>>
Key_gxp == K_gxp
Keys == {Key_su, Key_sdata, Key_gxp}

NoBytes == [ok |-> FALSE, exc |-> "none", bytes |-> <<>>]
NoInt == [ok |-> FALSE, exc |-> "none", none |-> TRUE, v |-> 0, offset |-> 0]

-----------------------------------------------------------------------------
(* One entry through decode, a hand edit of the decoded JSON, the integrity   *)
(* guard, and a decode of what the guard emitted                              *)

ProfileEdits ==
    {JObj(<< <<97, v>> >>) : v \in 1..MaxVal}
        \cup {JObj(<< <<97, 1>>, <<98, 2>> >>), JObj(<<>>), JArr(<< <<0, 2>> >>),
              JInt(3), JNull, JAbsent}

Edits ==
    {[k |-> "none", p |-> JAbsent]}
        \cup {[k |-> "profile", p |-> p] : p \in ProfileEdits}
        \cup {[k |-> e, p |-> JAbsent] :
                e \in {"gcash=7", "glevel=null", "gnum=2^28", "del gxp", "del outer",
                       "del raw_sol", "raw_sol.value_b64=''", "legacy value_b64",
                       "del raw_sol, entry_key=null"}}

ApplyEdit(entry, ed) ==
    IF ed.k = "none" THEN entry
    ELSE IF ed.k = "profile" THEN [entry EXCEPT !.profile = ed.p]
    ELSE IF ed.k = "gcash=7" THEN
        [entry EXCEPT !.outer = [@ EXCEPT !.st = "dict", !.gcash = FInt(7)]]
    ELSE IF ed.k = "glevel=null" THEN
        [entry EXCEPT !.outer = [@ EXCEPT !.st = "dict", !.glevel = FNull]]
    ELSE IF ed.k = "gnum=2^28" THEN
        [entry EXCEPT !.outer = [@ EXCEPT !.st = "dict", !.gnum = FInt(268435456)]]
    ELSE IF ed.k = "del gxp" THEN
        [entry EXCEPT !.outer = [@ EXCEPT !.st = "dict", !.gxp = FMissing]]
    ELSE IF ed.k = "del outer" THEN [entry EXCEPT !.outer = NoOuter]
    ELSE IF ed.k = "del raw_sol" THEN
        [entry EXCEPT !.has_raw_sol = FALSE, !.raw_value = Absent, !.bytes_length = -1]
    ELSE IF ed.k = "raw_sol.value_b64=''" THEN [entry EXCEPT !.raw_value = Str(<<>>)]
    ELSE IF ed.k = "del raw_sol, entry_key=null" THEN
        [entry EXCEPT !.has_raw_sol = FALSE, !.raw_value = Absent, !.bytes_length = -1,
                      !.entry_key = [st |-> "null", v |-> <<>>]]
    ELSE [entry EXCEPT !.has_raw_sol = FALSE, !.raw_value = Absent, !.bytes_length = -1,
                       !.value_b64 = entry.raw_value]

NoExt == [ok |-> FALSE, exc |-> "none", value |-> <<>>, mode |-> "none"]
NoDec == [ok |-> FALSE, exc |-> "none", entry |-> EmptyEntry]

NoStr == [ok |-> FALSE, exc |-> "none", text |-> <<>>, end |-> 0]

IdleU29 ==
    /\ upc = "idle" /\ value = 0 /\ enc = NoBytes /\ tail = <<>> /\ dec = NoInt
    /\ u_buf = <<>> /\ u_off = 0 /\ u_str = NoStr

(* the entry harness is not in use: its records are left empty *)
IdleGuard ==
    /\ gpc = "idle" /\ g_key = <<>> /\ g_value = <<>>
    /\ g_orig = <<>> /\ g_entry = <<>> /\ g_edit = "none"
    /\ g_allow = FALSE /\ g_apply = FALSE /\ g_out = <<>> /\ g_redec = <<>>

NoOutput == [written |-> FALSE, decoded_entries |-> 0, decode_failures |-> 0, entries |-> <<>>]

NoPayload == [format |-> "none", entries |-> <<>>]

IdleDecode ==
    /\ d_pc = "idle" /\ d_payload = NoPayload /\ d_include_disabled = FALSE
    /\ d_entries = <<>> /\ d_strict = FALSE /\ d_i = 0
    /\ decoded_entries = <<>> /\ failures = 0 /\ d_output = NoOutput /\ d_exit = -1

NoFile == [written |-> FALSE, map |-> <<>>]
NoDecoded == [kind |-> "none", entries |-> <<>>]

IdleEncode ==
    /\ e_pc = "idle" /\ e_payload = NoDecoded /\ e_include_disabled = FALSE
    /\ e_allow = FALSE /\ e_apply = FALSE /\ e_entries = <<>> /\ e_i = 0
    /\ save_map = <<>> /\ rebuild_count = 0 /\ e_file = NoFile /\ e_exit = -1

(* GameState.cash is Optional[int]: None, or the number OCR read *)
CashNone == [none |-> TRUE, v |-> 0]
Cash(n) == [none |-> FALSE, v |-> n]

(* GameState(): every field None (the model keeps the cash field) *)
GameState == [cash |-> CashNone]

NoTowers == [tid \in {} |-> 0]
NoCall == [op |-> "none", ok |-> FALSE, exc |-> "none", stage |-> "none", tid |-> 0]

IdleAgent ==
    /\ a_pc = "idle" /\ actions_this_tick = 0 /\ round_started_this_tick = FALSE
    /\ a_calls = <<>>

IdleServer == m_pc = "idle" /\ m_stdin = <<>> /\ m_taken = <<>> /\ m_stdout = <<>>

IdleEnv ==
    /\ w_pc = "idle" /\ _next_tower_id = 1 /\ _placed_towers = NoTowers
    /\ _last_game_state = GameState /\ returned_ids = <<>>
    /\ w_last = NoCall

Init ==
    /\ IdleU29 /\ IdleDecode /\ IdleEncode /\ IdleEnv /\ IdleAgent /\ IdleServer
    /\ gpc = "in"
    /\ g_key \in Keys
    /\ g_value \in InputBlobs
    /\ g_orig = EmptyEntry /\ g_entry = EmptyEntry /\ g_edit = "none"
    /\ g_allow = FALSE /\ g_apply = FALSE /\ g_out = NoExt /\ g_redec = NoDec

(* decode_saves.py main(), loop body for the entry (not strict) *)
DecodeEntry ==
    /\ gpc = "in"
    /\ g_orig' = DecodedRecord(g_key, g_value, TRUE)
    /\ g_entry' = g_orig'
    /\ gpc' = "decoded"
    /\ UNCHANGED <<g_key, g_value, g_edit, g_allow, g_apply, g_out, g_redec, uvars, dvars, evars, wvars, avars, mvars>>

(* the decoded JSON is edited by hand between the two runs (or left alone) *)
EditEntry ==
    /\ gpc = "decoded"
    /\ \E ed \in Edits :
          /\ g_entry' = ApplyEdit(g_entry, ed)
          /\ g_edit' = ed.k
    /\ gpc' = "edited"
    /\ UNCHANGED <<g_key, g_value, g_orig, g_allow, g_apply, g_out, g_redec, uvars, dvars, evars, wvars, avars, mvars>>

(* encode_decoded_saves.py: _extract_value_b64(entry, allow_rebuild, apply_edits) *)
ExtractValue ==
    /\ gpc = "edited"
    /\ \E allow_rebuild \in BOOLEAN, apply_edits \in BOOLEAN :
          /\ g_allow' = allow_rebuild
          /\ g_apply' = apply_edits
          /\ g_out' = _extract_value_b64(g_entry, allow_rebuild, apply_edits)
    /\ gpc' = "encoded"
    /\ UNCHANGED <<g_key, g_value, g_orig, g_entry, g_edit, g_redec, uvars, dvars, evars, wvars, avars, mvars>>

(* decode_sol_entry on the value the guard returned *)
ReDecode ==
    /\ gpc = "encoded"
    /\ g_out.ok
    /\ g_redec' = decode_sol_entry(g_key, g_out.value)
    /\ gpc' = "redecoded"
    /\ UNCHANGED <<g_key, g_value, g_orig, g_entry, g_edit, g_allow, g_apply, g_out, uvars, dvars, evars, wvars, avars, mvars>>

Next == DecodeEntry \/ EditEntry \/ ExtractValue \/ ReDecode

Spec == Init /\ [][Next]_vars

-----------------------------------------------------------------------------
(* Properties of the integrity guard, checked under Spec *)

HasRaw(entry) == entry.has_raw_sol /\ IsNonEmptyStr(entry.raw_value)
DecodeSucceeded == gpc \in {"decoded", "edited", "encoded", "redecoded"} /\ g_orig.error = "none"
Extracted == gpc \in {"encoded", "redecoded"}

(* a JSON value up to the order of an object's members *)
Canon(j) == IF j.kind = "obj" THEN JObj(SortByKey(j.items)) ELSE j

(* the outer fields, as read with .get, differ from the ones the raw value decodes to *)
OuterDiffers ==
    \/ g_entry.outer.st # "dict"
    \/ \E f \in {"glevel", "gcash", "gxp", "gnum"} :
          DictGet(g_entry.outer[f]) # DictGet(g_orig.outer[f])

\* C1: for every value_b64 that decode_sol_entry decodes, handing the unedited decoded
\* entry to _extract_value_b64 without apply-edits returns mode "lossless" and the
\* original value_b64, character for character.
C1_LosslessRoundTrip ==
    (Extracted /\ DecodeSucceeded /\ g_edit = "none" /\ ~g_apply) =>
        (g_out.ok /\ g_out.mode = "lossless" /\ g_out.value = g_value)

C1_Witness ==
    /\ gpc = "encoded" /\ g_value = B_partial /\ g_edit = "none" /\ ~g_apply
    /\ IsDict(g_entry.profile) /\ g_out.mode = "lossless" /\ g_out.value = B_partial

\* C2 (as claimed): a decoded entry that carries raw_sol.value_b64 and whose profile
\* (any JSON value) or outer_ud_fields differ from what the raw value decodes to is
\* never encoded without apply-edits: _extract_value_b64 fails.
C2_StaleEditRejected ==
    (Extracted /\ DecodeSucceeded /\ HasRaw(g_entry) /\ ~g_apply
       /\ (Canon(g_entry.profile) # Canon(g_orig.profile) \/ OuterDiffers))
    => ~g_out.ok

\* C3 (as claimed): for any entry with raw bytes and an edited object profile,
\* _extract_value_b64 with apply-edits succeeds in mode "rebuilt_from_edits", and
\* decode_sol_entry of the emitted value succeeds with a profile equal to the edited one.
C3_ApplyEditsRoundTrip ==
    (Extracted /\ HasRaw(g_entry) /\ g_apply /\ g_edit = "profile" /\ IsDict(g_entry.profile))
    => /\ g_out.ok
       /\ g_out.mode = "rebuilt_from_edits"
       /\ gpc = "redecoded" =>
             (g_redec.ok /\ Canon(g_redec.entry.profile) = Canon(g_entry.profile))

\* C8: an entry with no non-empty raw_sol.value_b64 and no non-empty value_b64 makes
\* _extract_value_b64 fail without allow-rebuild, whatever apply-edits is, and no value
\* is produced for it.
C8_MissingRawBytes ==
    (Extracted /\ ~HasRaw(g_entry) /\ ~IsNonEmptyStr(g_entry.value_b64) /\ ~g_allow)
    => (~g_out.ok /\ g_out.exc = "ValueError" /\ g_out.value = <<>> /\ g_out.mode = "none")

C8_Witness ==
    /\ gpc = "encoded" /\ g_edit = "del raw_sol" /\ g_apply /\ ~g_allow
    /\ IsDict(g_entry.profile) /\ g_entry.entry_key.st = "str"
    /\ ~g_out.ok /\ g_out.exc = "ValueError"

\* C11: _extract_value_b64 returns mode "rebuilt" only for an entry with no raw bytes and
\* only when allow-rebuild is set; for such an entry with allow-rebuild it raises when
\* entry_key is not a string or profile is not an object, and otherwise its result is
\* that of _encode_sol_entry(entry_key, profile, outer_ud_fields or {}): the encoded
\* value, or the Encoder's own exception.
C11_LegacyRebuildGating ==
    Extracted =>
        /\ g_out.mode = "rebuilt" =>
              (~HasRaw(g_entry) /\ ~IsNonEmptyStr(g_entry.value_b64) /\ g_allow)
        /\ (~HasRaw(g_entry) /\ ~IsNonEmptyStr(g_entry.value_b64) /\ g_allow) =>
              IF g_entry.entry_key.st # "str" \/ ~IsDict(g_entry.profile)
                  THEN ~g_out.ok /\ g_out.exc = "ValueError"
                  ELSE \E r \in {_encode_sol_entry(g_entry.entry_key.v, g_entry.profile,
                                    IF g_entry.outer.st = "dict" THEN g_entry.outer
                                    ELSE EmptyOuter)} :
                          /\ g_out.ok = r.ok
                          /\ g_out.exc = r.exc
                          /\ r.ok => (g_out.value = r.bytes /\ g_out.mode = "rebuilt")

C11_Witness ==
    /\ gpc = "encoded" /\ g_value = B_good /\ g_key = Key_su
    /\ g_edit = "del raw_sol" /\ g_allow /\ ~g_apply
    /\ g_out.ok /\ g_out.mode = "rebuilt" /\ g_out.value # <<>>

(* the four outer fields of the entry are integers in the signed AMF3 range *)
OuterInRange(o) ==
    /\ o.st = "dict"
    /\ \A f \in {"glevel", "gcash", "gxp", "gnum"} :
          o[f].st = "int" /\ o[f].v >= -268435456 /\ o[f].v <= 268435455

Rebuilt == g_out.ok /\ g_out.mode \in {"rebuilt", "rebuilt_from_edits"}

\* C12 (as claimed): for any container built by _encode_sol_entry (any profile, any
\* object name) from integers glevel, gcash, gxp, gnum in AMF3 range, decode_sol_entry
\* returns outer_ud_fields equal to exactly those four integers.
C12_PresentOuterFieldsDecode ==
    (gpc = "redecoded" /\ Rebuilt /\ OuterInRange(g_entry.outer)) =>
        (g_redec.ok /\ g_redec.entry.outer = g_entry.outer)

(* the outer fields B_good is built from *)
GoodOuter == OuterDict(FInt(5), FInt(1000), FInt(-1), FInt(0))

\* C13: for a container that holds a valid "data" field but not the key bytes of some of
\* glevel, gcash, gxp, gnum, decode_sol_entry succeeds and records null for each absent
\* field, while the other fields and the profile are as in the full container.
C13_AbsentOuterFieldsNull ==
    \A S \in MissingSets :
        (gpc # "in" /\ g_value = B_without[S]) =>
            /\ g_orig.error = "none"
            /\ g_orig.profile = JObj(<< <<97, 1>> >>)
            /\ g_orig.outer.st = "dict"
            /\ \A f \in FieldNames :
                  g_orig.outer[f] = IF f \in S THEN FNull ELSE GoodOuter[f]

C13_Witness ==
    /\ gpc = "decoded" /\ g_value = B_without[{"gxp"}]
    /\ g_orig.outer.gxp = FNull /\ g_orig.outer.gcash = FInt(1000)
    /\ g_orig.outer.glevel = FInt(5) /\ g_orig.outer.gnum = FInt(0)

(* the value an outer field is encoded from: int(outer_ud_fields.get(name, 0)) *)
FieldInt(o, f) == IF o.st = "dict" /\ o[f].st = "int" THEN o[f].v ELSE 0

(* an unmarked AMF3 key string shorter than 64 bytes, tag 0x04, a signed AMF3 integer *)
CanonField(key, n) == <<(2 * Len(key)) + 1>> \o key \o <<4>> \o _encode_amf3_int(n).bytes

(* everything of the container before the value of "data" *)
CanonHead(name) ==
    <<84, 67, 83, 79>> \o <<0, 4>> \o <<0, 0, 0, 0>>
        \o <<Len(name) \div 256, Len(name) % 256>> \o name
        \o <<0, 0, 0, 3>> \o <<5, 117, 100, 10, 11, 1>> \o <<9, 100, 97, 116, 97>>

CanonLayout(raw, name, o) ==
    LET rest == Slice(raw, 6, Len(raw))
        h == Len(CanonHead(name))
    IN /\ Len(raw) >= 6 + h
       /\ SubSeq(raw, 1, 2) = <<0, 191>>
       /\ (((raw[3] * 256 + raw[4]) * 256 + raw[5]) * 256) + raw[6] = Len(rest)
       /\ Slice(rest, 0, h) = CanonHead(name)
       /\ \E str \in {_decode_amf3_string(rest, h)} :
             /\ str.ok
             /\ Slice(rest, str.end, Len(rest)) =
                    CanonField(K_glevel, FieldInt(o, "glevel"))
                        \o CanonField(K_gcash, FieldInt(o, "gcash"))
                        \o CanonField(K_gxp, FieldInt(o, "gxp"))
                        \o CanonField(K_gnum, FieldInt(o, "gnum"))
                        \o <<1, 0>>

\* C17: every container _encode_sol_entry builds is the 2-byte marker 00 BF and a 4-byte
\* big-endian length equal to the length of the rest, then "TCSO", version, four zero
\* bytes, the length-prefixed object name (the final "/"-segment of entry_key), the
\* class-descriptor header, then data (marked string), glevel, gcash, gxp, gnum (each an
\* unmarked key, tag 0x04 and a signed AMF3 int) in this order, then the end marker.
C17_EncoderCanonicalLayout ==
    (Extracted /\ Rebuilt) =>
        \E raw \in {b64decode(g_out.value)} :
            /\ raw.ok
            /\ CanonLayout(raw.bytes, RSplitLast(g_key), g_entry.outer)

C17_Witness ==
    /\ gpc = "encoded" /\ g_key = Key_sdata /\ g_value = B_good
    /\ g_apply /\ g_edit = "gcash=7" /\ g_out.ok /\ g_out.mode = "rebuilt_from_edits"

(* _extract_value_b64 reaches a call of _encode_sol_entry *)
EncoderCalled ==
    \/ HasRaw(g_entry) /\ g_apply /\ IsDict(g_entry.profile)
    \/ /\ ~HasRaw(g_entry) /\ ~IsNonEmptyStr(g_entry.value_b64) /\ g_allow
       /\ g_entry.entry_key.st = "str" /\ IsDict(g_entry.profile)

(* each outer field is an integer in AMF3 range or is not supplied as an integer *)
OuterIntOrNot(o) ==
    \A f \in FieldNames :
        (o.st = "dict" /\ o[f].st = "int") => (o[f].v >= -268435456 /\ o[f].v <= 268435455)

\* C18 (as claimed): _encode_sol_entry accepts outer fields in which any of glevel,
\* gcash, gxp, gnum is not supplied as an integer, and encodes each such field as 0,
\* without failing.
C18_EncoderOuterDefaults ==
    (Extracted /\ EncoderCalled /\ OuterIntOrNot(g_entry.outer)) =>
        /\ g_out.ok
        /\ \E raw \in {b64decode(g_out.value)} :
              raw.ok /\ CanonLayout(raw.bytes, RSplitLast(g_key), g_entry.outer)

\* C9 (as claimed): when apply-edits is set, the output of every entry is produced by
\* the Encoder from the entry's current profile and outer_ud_fields, whether or not
\* the entry carries raw bytes; no entry's raw bytes are emitted verbatim.
C9_ApplyEditsNeverVerbatim ==
    (Extracted /\ g_apply /\ g_out.ok) => g_out.mode \in {"rebuilt_from_edits", "rebuilt"}

-----------------------------------------------------------------------------
(* decode_saves.py main(): the run over the loaded entries *)

SaveEntry(key, value_b64, enabled) == [key |-> key, value_b64 |-> value_b64, enabled |-> enabled]

(* key number i of an input file is "k" followed by the digit i *)
KeyAt(i) == <<107, 48 + i>>
DecodePool == {B_good, B_partial, B_list, B_trunc, B_badzlib, B_cutint}

(* one element of "entries" in the editor format, or one item of the export map: *)
(* enabled is "absent", "true", "false" or "zero" (the number 0)                  *)
RawRecord(key, shape) == [key |-> key, value_b64 |-> shape.value_b64, enabled |-> shape.enabled]
RawShape(value_b64, enabled) == [value_b64 |-> value_b64, enabled |-> enabled]
EditorShapes ==
    {RawShape(Str(B_good), "absent"), RawShape(Str(B_partial), "true"),
     RawShape(Str(B_trunc), "absent"), RawShape(Str(B_good), "false"),
     RawShape(Str(B_badzlib), "false"), RawShape(Str(B_list), "zero"),
     RawShape(Str(B_cutint), "true"), RawShape(NullStr, "true")}
ExportShapes ==
    {RawShape(Str(B_good), "absent"), RawShape(Str(B_trunc), "absent"),
     RawShape(Str(B_partial), "absent"), RawShape(NullStr, "absent")}
FilesOf(format, shapes, max) ==
    UNION {{[format |-> format,
             entries |-> AsSeq([i \in 1..n |-> RawRecord(Str(KeyAt(i)), f[i])], n)] :
               f \in [1..n -> shapes]} : n \in 0..max}
InputFiles ==
    FilesOf("save_editor", EditorShapes, MaxEntries)
        \cup FilesOf("raw_export", ExportShapes, MaxEntries)

(* bool(raw.get("enabled", True)) *)
PyBool(enabled) == enabled \in {"absent", "true"}

(* bug variant: include_disabled is ignored, a disabled entry is always dropped *)
_load_entries_drops_disabled(payload, include_disabled) ==
    LET KeptEditor(raw) ==
            /\ PyBool(raw.enabled)
            /\ raw.key.st = "str" /\ raw.value_b64.st = "str"
        KeptExport(raw) == raw.key.st = "str" /\ raw.value_b64.st = "str"
        Entry(raw) ==
            SaveEntry(raw.key.v, raw.value_b64.v,
                      IF payload.format = "save_editor" THEN PyBool(raw.enabled) ELSE TRUE)
    IN Bind(LAMBDA kept : AsSeq([i \in 1..Len(kept) |-> Entry(kept[i])], Len(kept)),
            IF payload.format = "save_editor" THEN SelectSeq(payload.entries, KeptEditor)
            ELSE SelectSeq(payload.entries, KeptExport))

(* the SaveEntry list of an input file in editor format or export-map format *)
_load_entries(payload, include_disabled) ==
    LET KeptEditor(raw) ==
            /\ ~(~include_disabled /\ ~PyBool(raw.enabled))
            /\ raw.key.st = "str" /\ raw.value_b64.st = "str"
        KeptExport(raw) == raw.key.st = "str" /\ raw.value_b64.st = "str"
        Entry(raw) ==
            SaveEntry(raw.key.v, raw.value_b64.v,
                      IF payload.format = "save_editor" THEN PyBool(raw.enabled) ELSE TRUE)
    IN Bind(LAMBDA kept : AsSeq([i \in 1..Len(kept) |-> Entry(kept[i])], Len(kept)),
            IF payload.format = "save_editor" THEN SelectSeq(payload.entries, KeptEditor)
            ELSE SelectSeq(payload.entries, KeptExport))

(* bug variant: a failure is re-raised whether or not strict is set *)
DecodeLoopBodyAlwaysStrict(entry, strict, acc, nfail) ==
    Bind(LAMBDA r :
        IF r.ok THEN
            [decoded_entries |->
                 Append(acc, [r.entry EXCEPT
                                !.enabled = IF entry.enabled THEN "true" ELSE "false"]),
             failures |-> nfail, raised |-> FALSE]
        ELSE [decoded_entries |->
                  Append(acc, ErrorEntry(entry.key, entry.value_b64, entry.enabled, r.exc)),
              failures |-> nfail + 1, raised |-> TRUE],
        decode_sol_entry(entry.key, entry.value_b64))

(* bug variant: the record is put in front of the list instead of at its end *)
DecodeLoopBodyPrepends(entry, strict, acc, nfail) ==
    Bind(LAMBDA r :
        IF r.ok THEN
            [decoded_entries |->
                 <<[r.entry EXCEPT !.enabled = IF entry.enabled THEN "true" ELSE "false"]>>
                     \o acc,
             failures |-> nfail, raised |-> FALSE]
        ELSE [decoded_entries |->
                  <<ErrorEntry(entry.key, entry.value_b64, entry.enabled, r.exc)>> \o acc,
              failures |-> nfail + 1, raised |-> strict],
        decode_sol_entry(entry.key, entry.value_b64))

(* bug variant: a failing entry is counted but no record is kept for it *)
DecodeLoopBodyDropsFailures(entry, strict, acc, nfail) ==
    Bind(LAMBDA r :
        IF r.ok THEN
            [decoded_entries |->
                 Append(acc, [r.entry EXCEPT
                                !.enabled = IF entry.enabled THEN "true" ELSE "false"]),
             failures |-> nfail, raised |-> FALSE]
        ELSE [decoded_entries |-> acc, failures |-> nfail + 1, raised |-> strict],
        decode_sol_entry(entry.key, entry.value_b64))

(* bug variant: strict is ignored, the loop goes on after a failure *)
DecodeLoopBodyNeverRaises(entry, strict, acc, nfail) ==
    Bind(LAMBDA r :
        IF r.ok THEN
            [decoded_entries |->
                 Append(acc, [r.entry EXCEPT
                                !.enabled = IF entry.enabled THEN "true" ELSE "false"]),
             failures |-> nfail, raised |-> FALSE]
        ELSE [decoded_entries |->
                  Append(acc, ErrorEntry(entry.key, entry.value_b64, entry.enabled, r.exc)),
              failures |-> nfail + 1, raised |-> FALSE],
        decode_sol_entry(entry.key, entry.value_b64))

(* the body of "for entry in entries": try decode, except record the error and, *)
(* when strict, re-raise                                                        *)
DecodeLoopBody(entry, strict, acc, nfail) ==
    Bind(LAMBDA r :
        IF r.ok THEN
            [decoded_entries |->
                 Append(acc, [r.entry EXCEPT
                                !.enabled = IF entry.enabled THEN "true" ELSE "false"]),
             failures |-> nfail, raised |-> FALSE]
        ELSE [decoded_entries |->
                  Append(acc, ErrorEntry(entry.key, entry.value_b64, entry.enabled, r.exc)),
              failures |-> nfail + 1, raised |-> strict],
        decode_sol_entry(entry.key, entry.value_b64))

InitDecode ==
    /\ IdleU29 /\ IdleGuard /\ IdleEncode /\ IdleEnv /\ IdleAgent /\ IdleServer
    /\ d_pc = "start"
    /\ d_payload \in InputFiles
    /\ d_include_disabled \in BOOLEAN
    /\ d_strict \in BOOLEAN
    /\ d_entries = <<>> /\ d_i = 0
    /\ decoded_entries = <<>> /\ failures = 0 /\ d_output = NoOutput /\ d_exit = -1

(* source_type, entries = _load_entries(input_path, include_disabled) *)
DecodeLoad ==
    /\ d_pc = "start"
    /\ d_entries' = _load_entries(d_payload, d_include_disabled)
    /\ d_pc' = "loaded"
    /\ UNCHANGED <<d_payload, d_include_disabled, d_strict, d_i, decoded_entries, failures,
                   d_output, d_exit, uvars, gvars, evars, wvars, avars, mvars>>

(* "if not entries: raise ValueError" *)
DecodeNoEntries ==
    /\ d_pc = "loaded" /\ d_entries = <<>>
    /\ d_pc' = "rejected" /\ d_exit' = 1
    /\ UNCHANGED <<d_payload, d_include_disabled, d_entries, d_strict, d_i, decoded_entries,
                   failures, d_output, uvars, gvars, evars, wvars, avars, mvars>>

(* one iteration of the loop over entries *)
DecodeStep ==
    /\ d_pc \in {"loaded", "loop"} /\ d_i < Len(d_entries)
    /\ \E r \in {DecodeLoopBody(d_entries[d_i + 1], d_strict, decoded_entries, failures)} :
          /\ decoded_entries' = r.decoded_entries
          /\ failures' = r.failures
          /\ d_pc' = IF r.raised THEN "raised" ELSE "loop"
          /\ d_exit' = IF r.raised THEN 1 ELSE d_exit
    /\ d_i' = d_i + 1
    /\ UNCHANGED <<d_payload, d_include_disabled, d_entries, d_strict, d_output,
                   uvars, gvars, evars, wvars, avars, mvars>>

(* after the loop: write the aggregate document and return the status *)
DecodeWrite ==
    /\ d_pc = "loop" /\ d_i = Len(d_entries)
    /\ d_output' = [written |-> TRUE, decoded_entries |-> Len(decoded_entries),
                    decode_failures |-> failures, entries |-> decoded_entries]
    /\ d_exit' = IF failures = 0 THEN 0 ELSE 1
    /\ d_pc' = "done"
    /\ UNCHANGED <<d_payload, d_include_disabled, d_entries, d_strict, d_i, decoded_entries,
                   failures, uvars, gvars, evars, wvars, avars, mvars>>

NextDecode == DecodeLoad \/ DecodeNoEntries \/ DecodeStep \/ DecodeWrite

SpecDecode == InitDecode /\ [][NextDecode]_vars

(* main() runs to its end: no step of the run is postponed forever *)
SpecDecodeFair == SpecDecode /\ WF_vars(NextDecode)

InSeq(x, seq) == \E i \in 1..Len(seq) : seq[i] = x
KeysOf(seq) == {seq[i].key : i \in 1..Len(seq)}
EntryKeysOf(seq) == {seq[i].entry_key : i \in 1..Len(seq)}

Fails(e) == ~decode_sol_entry(e.key, e.value_b64).ok
Failing == {i \in 1..Len(d_entries) : Fails(d_entries[i])}
FirstOf(S) == CHOOSE i \in S : \A j \in S : i <= j

\* C6: a non-strict decode run over N loaded entries of which K fail writes a document
\* with decoded_entries = N and decode_failures = K that holds, in input position, an
\* error record for each failing entry and, for each other entry, the record
\* decode_sol_entry gives for that entry alone (tagged with the entry's enabled flag).
C6_PartialFailureIsolation ==
    (d_pc = "done" /\ ~d_strict) =>
        /\ d_output.written
        /\ d_output.decoded_entries = Len(d_entries)
        /\ d_output.decode_failures = Cardinality(Failing)
        /\ Len(d_output.entries) = Len(d_entries)
        /\ \A i \in 1..Len(d_entries) :
              LET e == d_entries[i]
                  r == decode_sol_entry(e.key, e.value_b64)
                  rec == d_output.entries[i]
              IN IF r.ok
                     THEN rec = [r.entry EXCEPT
                                    !.enabled = IF e.enabled THEN "true" ELSE "false"]
                     ELSE /\ rec.error = r.exc /\ rec.error # "none"
                          /\ rec.entry_key = Str(e.key)
                          /\ rec.raw_value = Str(e.value_b64)
                          /\ rec.profile = JAbsent

C6_Witness ==
    /\ d_pc = "done" /\ ~d_strict /\ Len(d_entries) = 2
    /\ d_entries[1].value_b64 = B_trunc /\ d_entries[2].value_b64 = B_partial
    /\ d_output.decode_failures = 1
    /\ d_output.entries[2].profile = JObj(<< <<98, 2>>, <<97, 1>> >>)

(* the position in the input file of the loaded entry with this key *)
PosIn(key) == CHOOSE k \in 1..Len(d_payload.entries) : d_payload.entries[k].key = Str(key)

\* C15: the entries list of the decode output has exactly one record (success or error)
\* per loaded entry, in the order in which the entries were loaded, which is the order
\* of the input file.
C15_OutputPreservesOrder ==
    /\ d_pc # "start" =>
          /\ \A i \in 1..Len(d_entries) :
                InSeq(RawRecord(Str(d_entries[i].key), RawShape(Str(d_entries[i].value_b64),
                          d_payload.entries[PosIn(d_entries[i].key)].enabled)),
                      d_payload.entries)
          /\ \A i, j \in 1..Len(d_entries) :
                i < j => PosIn(d_entries[i].key) < PosIn(d_entries[j].key)
    /\ Len(decoded_entries) = d_i
    /\ \A i \in 1..Len(decoded_entries) :
          /\ decoded_entries[i].entry_key = Str(d_entries[i].key)
          /\ decoded_entries[i].raw_value = Str(d_entries[i].value_b64)
    /\ d_output.written =>
          /\ Len(d_output.entries) = Len(d_entries)
          /\ \A i \in 1..Len(d_entries) :
                /\ d_output.entries[i].entry_key = Str(d_entries[i].key)
                /\ d_output.entries[i].raw_value = Str(d_entries[i].value_b64)
                /\ d_output.entries[i].error = "none" <=> ~Fails(d_entries[i])

C15_Witness ==
    /\ d_pc = "done" /\ d_payload.format = "raw_export" /\ Len(d_payload.entries) = 2
    /\ Len(d_output.entries) = 2
    /\ d_output.entries[1].entry_key = Str(KeyAt(1)) /\ d_output.entries[1].error = "none"
    /\ d_output.entries[2].entry_key = Str(KeyAt(2)) /\ d_output.entries[2].error # "none"

NonStrictRun == d_pc \in {"loaded", "loop", "raised", "done"} /\ ~d_strict /\ d_entries # <<>>

\* C16: a non-strict decode run with at least one loaded entry always writes the output
\* document, whatever number of entries fail (it never raises and it reaches the
\* write), and its exit status is 0 exactly when decode_failures is 0.
C16_BestEffortOutput ==
    /\ [](NonStrictRun =>
            /\ d_pc # "raised"
            /\ d_pc = "done" =>
                  /\ d_output.written
                  /\ d_output.decode_failures = Cardinality(Failing)
                  /\ d_exit = 0 <=> d_output.decode_failures = 0
            /\ d_pc # "done" => (~d_output.written /\ d_exit = -1))
    /\ NonStrictRun ~> (d_pc = "done" /\ d_output.written)

C16_Witness ==
    /\ d_pc = "done" /\ ~d_strict /\ Len(d_entries) = 2
    /\ Failing = {1, 2} /\ d_output.written /\ d_output.decode_failures = 2 /\ d_exit = 1

\* C7: with strict set the run raises at the first entry, in input order, that fails to
\* decode: no later entry is decoded and no output document is written.
C7_StrictStopsAtFirstFailure ==
    (d_strict /\ Failing # {}) =>
        /\ d_pc # "done"
        /\ ~d_output.written
        /\ d_i <= FirstOf(Failing)
        /\ d_i = FirstOf(Failing) => (d_pc = "raised" /\ d_exit = 1)
        /\ d_pc = "raised" => d_i = FirstOf(Failing)

C7_Witness ==
    /\ d_strict /\ d_pc = "raised" /\ Len(d_entries) = 2 /\ d_i = 1
    /\ d_entries[1].value_b64 = B_badzlib /\ d_entries[2].value_b64 = B_good
    /\ ~d_output.written

-----------------------------------------------------------------------------
(* encode_decoded_saves.py main(): the run over the entries of a decoded file *)

(* entries of a decoded file: as decoded, with a stale profile edit, without raw  *)
(* bytes, an error record, with "entry_key": null, disabled, without entry_key    *)
E_plain == DecodedRecord(Key_su, B_partial, TRUE)
E_stale ==
    [ApplyEdit(E_plain, [k |-> "profile", p |-> JObj(<< <<97, 2>> >>)])
        EXCEPT !.entry_key = Str(Key_gxp)]
E_legacy == ApplyEdit(E_plain, [k |-> "del raw_sol", p |-> JAbsent])
E_error == DecodedRecord(Key_sdata, B_trunc, TRUE)
E_nullkey == [E_plain EXCEPT !.entry_key = [st |-> "null", v |-> <<>>]]
E_disabled == [E_stale EXCEPT !.enabled = "false"]
E_nokey == [E_plain EXCEPT !.entry_key = Absent]
EncodePool == {E_plain, E_stale, E_legacy, E_error, E_nullkey, E_disabled, E_nokey}
(* the JSON read from the input: a document in DECODED_FORMAT with its entries, a   *)
(* bare decoded entry, or some other JSON value                                     *)
DecodedFiles ==
    {[kind |-> "file", entries |-> f] :
        f \in UNION {[1..n -> EncodePool] : n \in 0..MaxEntries}}
        \cup {[kind |-> "entry", entries |-> <<e>>] : e \in EncodePool}
        \cup {[kind |-> "other", entries |-> <<>>]}

LoadRaise == [ok |-> FALSE, exc |-> "ValueError", entries |-> <<>>]
LoadOk(es) == [ok |-> TRUE, exc |-> "none", entries |-> es]

(* bug variant: a disabled entry is loaded like any other *)
_load_decoded_entries_keeps_disabled(payload, include_disabled) ==
    LET Kept(entry) == entry.entry_key.st # "absent"
    IN IF payload.kind = "file" THEN LoadOk(SelectSeq(payload.entries, Kept))
       ELSE IF payload.kind = "entry" /\ payload.entries[1].entry_key.st # "absent" THEN
           LoadOk(payload.entries)
       ELSE LoadRaise

(* the entries a decoded input yields *)
_load_decoded_entries(payload, include_disabled) ==
    LET Kept(entry) ==
            /\ ~(~include_disabled /\ entry.enabled = "false")
            /\ entry.entry_key.st # "absent"
    IN IF payload.kind = "file" THEN LoadOk(SelectSeq(payload.entries, Kept))
       ELSE IF payload.kind = "entry" /\ payload.entries[1].entry_key.st # "absent" THEN
           (IF payload.entries[1].enabled = "false" /\ ~include_disabled
                THEN LoadOk(<<>>)
                ELSE LoadOk(payload.entries))
       ELSE LoadRaise

(* bug variant: an entry the guard rejects is skipped and the loop goes on *)
EncodeLoopBodySkipsRejected(entry, allow_rebuild, apply_edits, map, count) ==
    IF entry.entry_key.st # "str"
        THEN [save_map |-> map, rebuild_count |-> count, raised |-> TRUE]
    ELSE Bind(LAMBDA r :
            IF ~r.ok THEN [save_map |-> map, rebuild_count |-> count, raised |-> FALSE]
            ELSE [save_map |-> ObjPut(map, entry.entry_key.v, r.value),
                  rebuild_count |->
                      IF r.mode \in {"rebuilt", "rebuilt_from_edits"} THEN count + 1
                      ELSE count,
                  raised |-> FALSE],
            _extract_value_b64(entry, allow_rebuild, apply_edits))

(* the body of "for entry in entries": the key check, _extract_value_b64 (whose *)
(* exception leaves main), the rebuild count, save_map[key] = value_b64         *)
EncodeLoopBody(entry, allow_rebuild, apply_edits, map, count) ==
    IF entry.entry_key.st # "str"
        THEN [save_map |-> map, rebuild_count |-> count, raised |-> TRUE]
    ELSE Bind(LAMBDA r :
            IF ~r.ok THEN [save_map |-> map, rebuild_count |-> count, raised |-> TRUE]
            ELSE [save_map |-> ObjPut(map, entry.entry_key.v, r.value),
                  rebuild_count |->
                      IF r.mode \in {"rebuilt", "rebuilt_from_edits"} THEN count + 1
                      ELSE count,
                  raised |-> FALSE],
            _extract_value_b64(entry, allow_rebuild, apply_edits))

InitEncode ==
    /\ IdleU29 /\ IdleGuard /\ IdleDecode /\ IdleEnv /\ IdleAgent /\ IdleServer
    /\ e_pc = "start"
    /\ e_payload \in DecodedFiles
    /\ e_include_disabled \in BOOLEAN
    /\ e_allow \in BOOLEAN
    /\ e_apply \in BOOLEAN
    /\ e_entries = <<>> /\ e_i = 0
    /\ save_map = <<>> /\ rebuild_count = 0 /\ e_file = NoFile /\ e_exit = -1

(* entries = _load_decoded_entries(...), whose ValueError leaves main;           *)
(* "if not entries: raise ValueError"                                           *)
EncodeLoad ==
    /\ e_pc = "start"
    /\ \E r \in {_load_decoded_entries(e_payload, e_include_disabled)} :
          /\ e_entries' = r.entries
          /\ e_pc' = IF ~r.ok \/ r.entries = <<>> THEN "rejected" ELSE "loop"
          /\ e_exit' = IF ~r.ok \/ r.entries = <<>> THEN 1 ELSE e_exit
    /\ UNCHANGED <<e_payload, e_include_disabled, e_allow, e_apply, e_i, save_map,
                   rebuild_count, e_file, uvars, gvars, dvars, wvars, avars, mvars>>

(* one iteration of the loop over entries *)
EncodeStep ==
    /\ e_pc = "loop" /\ e_i < Len(e_entries)
    /\ \E r \in {EncodeLoopBody(e_entries[e_i + 1], e_allow, e_apply, save_map,
                                rebuild_count)} :
          /\ save_map' = r.save_map
          /\ rebuild_count' = r.rebuild_count
          /\ e_pc' = IF r.raised THEN "raised" ELSE "loop"
          /\ e_exit' = IF r.raised THEN 1 ELSE e_exit
    /\ e_i' = e_i + 1
    /\ UNCHANGED <<e_payload, e_include_disabled, e_allow, e_apply, e_entries, e_file,
                   uvars, gvars, dvars, wvars, avars, mvars>>

(* after the loop: write json.dumps(save_map) to output_path and return 0 *)
EncodeWrite ==
    /\ e_pc = "loop" /\ e_i = Len(e_entries)
    /\ e_file' = [written |-> TRUE, map |-> save_map]
    /\ e_exit' = 0
    /\ e_pc' = "done"
    /\ UNCHANGED <<e_payload, e_include_disabled, e_allow, e_apply, e_entries, e_i,
                   save_map, rebuild_count, uvars, gvars, dvars, wvars, avars, mvars>>

NextEncode == EncodeLoad \/ EncodeStep \/ EncodeWrite

SpecEncode == InitEncode /\ [][NextEncode]_vars

(* the loaded entries at which the loop body raises *)
Rejected ==
    {i \in 1..Len(e_entries) :
        \/ e_entries[i].entry_key.st # "str"
        \/ ~_extract_value_b64(e_entries[i], e_allow, e_apply).ok}
Loaded == e_pc \in {"loop", "raised", "done"}

\* C10: if the integrity guard raises for an entry, the encode run stops at that entry
\* (the first such entry in input order), writes no output file and ends with a
\* non-zero status; if no entry raises, the written map holds a value for the key of
\* every loaded entry.
C10_EncodeAllOrNothing ==
    /\ (Loaded /\ Rejected # {}) =>
          /\ e_pc # "done"
          /\ ~e_file.written
          /\ e_i <= FirstOf(Rejected)
          /\ e_i = FirstOf(Rejected) => (e_pc = "raised" /\ e_exit = 1)
    /\ e_pc = "raised" => (e_i \in Rejected /\ ~e_file.written /\ e_exit # 0)
    /\ (Loaded /\ Rejected = {} /\ e_i = Len(e_entries)) => e_pc \in {"loop", "done"}
    /\ e_pc = "done" =>
          /\ Rejected = {}
          /\ e_file.written /\ e_exit = 0
          /\ \A i \in 1..Len(e_entries) :
                \E j \in 1..Len(e_file.map) :
                   /\ e_file.map[j][1] = e_entries[i].entry_key.v
                   /\ e_file.map[j][2] # <<>>

C10_Witness ==
    /\ e_pc = "raised" /\ Len(e_entries) = 2 /\ e_i = 2 /\ ~e_apply
    /\ e_entries[1] = E_plain /\ e_entries[2] = E_stale
    /\ Len(save_map) = 1 /\ ~e_file.written /\ e_exit = 1

-----------------------------------------------------------------------------
(* The two scripts in sequence: decode_saves.py writes the decoded document,  *)
(* encode_decoded_saves.py reads it back as its input                         *)

PipeShapes ==
    {RawShape(Str(B_good), "absent"), RawShape(Str(B_good), "false"),
     RawShape(Str(B_trunc), "false"), RawShape(Str(B_partial), "true")}
PipeExportShapes ==
    {RawShape(Str(B_good), "absent"), RawShape(Str(B_partial), "absent"),
     RawShape(Str(B_list), "absent"), RawShape(Str(B_trunc), "absent"),
     RawShape(Str(B_badzlib), "absent")}
PipeFiles ==
    FilesOf("save_editor", PipeShapes, MaxEntries)
        \cup FilesOf("raw_export", PipeExportShapes, MaxEntries)

InitPipeline ==
    /\ IdleU29 /\ IdleGuard /\ IdleEncode /\ IdleEnv /\ IdleAgent /\ IdleServer
    /\ d_pc = "start"
    /\ d_payload \in PipeFiles
    /\ d_include_disabled \in BOOLEAN
    /\ d_strict \in BOOLEAN
    /\ d_entries = <<>> /\ d_i = 0
    /\ decoded_entries = <<>> /\ failures = 0 /\ d_output = NoOutput /\ d_exit = -1

(* encode_decoded_saves.py is started on the document the decode run wrote *)
EncodeRead ==
    /\ d_pc = "done" /\ e_pc = "idle"
    /\ e_payload' = [kind |-> "file", entries |-> d_output.entries]
    /\ e_include_disabled' \in BOOLEAN
    /\ e_allow' \in BOOLEAN
    /\ e_apply' \in BOOLEAN
    /\ e_pc' = "start"
    /\ UNCHANGED <<e_entries, e_i, save_map, rebuild_count, e_file, e_exit,
                   uvars, gvars, dvars, wvars, avars, mvars>>

NextPipeline == NextDecode \/ EncodeRead \/ NextEncode

SpecPipeline == InitPipeline /\ [][NextPipeline]_vars

\* C14: in the decode loader and in the encode loader an entry with enabled = false is
\* omitted from the output unless include-disabled is set; with include-disabled set at
\* decode the entry is loaded and its record in the output document is tagged
\* enabled: false (and with include-disabled set at encode the entry is loaded).
C14_DisabledEntryFiltering ==
    /\ d_pc # "start" =>
          \A i \in 1..Len(d_payload.entries) :
             LET raw == d_payload.entries[i] IN
             (d_payload.format = "save_editor" /\ raw.enabled = "false"
                /\ raw.key.st = "str" /\ raw.value_b64.st = "str") =>
                 IF d_include_disabled
                     THEN /\ InSeq(SaveEntry(raw.key.v, raw.value_b64.v, FALSE), d_entries)
                          /\ d_output.written =>
                                \E j \in 1..Len(d_output.entries) :
                                    /\ d_output.entries[j].entry_key = raw.key
                                    /\ d_output.entries[j].enabled = "false"
                     ELSE /\ raw.key.v \notin KeysOf(d_entries)
                          /\ raw.key \notin EntryKeysOf(d_output.entries)
    /\ e_pc \notin {"idle", "start"} =>
          \A i \in 1..Len(e_payload.entries) :
             LET entry == e_payload.entries[i] IN
             (entry.enabled = "false" /\ entry.entry_key.st # "absent") =>
                 IF e_include_disabled
                     THEN InSeq(entry, e_entries)
                     ELSE /\ ~InSeq(entry, e_entries)
                          /\ \A j \in 1..Len(e_file.map) :
                                e_file.map[j][1] # entry.entry_key.v

C14_Witness ==
    /\ d_include_disabled /\ d_pc = "done" /\ Len(d_output.entries) = 2
    /\ d_output.entries[1].enabled = "false" /\ d_output.entries[1].error = "none"
    /\ d_output.entries[2].enabled = "true"
    /\ ~e_include_disabled /\ e_pc = "done"
    /\ Len(e_file.map) = 1 /\ e_file.map[1][1] = KeyAt(2)

-----------------------------------------------------------------------------
(* U29 harness: inputs, Init and actions *)

Septets == {0, 1, 85, 127}
Octets == {0, 1, 128, 255}
Packed4 == {a * 4194304 + b * 32768 + c * 256 + d :
              a \in {1, 127}, b \in {0, 85}, c \in {0, 127}, d \in Octets}
Packed3 == {a * 16384 + b * 128 + c : a \in {1, 85, 127}, b \in Septets, c \in Septets}
Edges == {127, 128, 16383, 16384, 2097151, 2097152, 268435455, 268435456,
          536870911, 536870912, 536870913}
Unsigned == (0..MaxSmall) \cup Packed3 \cup Packed4 \cup Edges
IntInputs == Unsigned \cup {-n : n \in Unsigned} \cup {-n - 1 : n \in Unsigned}
Tails == {<<>>, <<255>>, <<0, 127>>}

InitU29 ==
    /\ IdleGuard /\ IdleDecode /\ IdleEncode /\ IdleEnv /\ IdleAgent /\ IdleServer
    /\ upc = "in"
    /\ value \in IntInputs
    /\ tail \in Tails
    /\ enc = NoBytes
    /\ dec = NoInt
    /\ u_buf = <<>> /\ u_off = 0 /\ u_str = NoStr

(* enc := _encode_u29(value) *)
CallEncodeU29 ==
    /\ upc = "in"
    /\ enc' = _encode_u29(value)
    /\ upc' = IF enc'.ok THEN "u29" ELSE "u29failed"
    /\ UNCHANGED <<value, tail, dec, u_buf, u_off, u_str, gvars, dvars, evars, wvars, avars, mvars>>

(* enc := _encode_amf3_int(value) *)
CallEncodeAmf3Int ==
    /\ upc = "in"
    /\ enc' = _encode_amf3_int(value)
    /\ upc' = IF enc'.ok THEN "int" ELSE "intfailed"
    /\ UNCHANGED <<value, tail, dec, u_buf, u_off, u_str, gvars, dvars, evars, wvars, avars, mvars>>

(* dec := _decode_u29(enc.bytes + tail, 0) *)
CallDecodeU29 ==
    /\ upc = "u29"
    /\ LET r == _decode_u29(enc.bytes \o tail, 0) IN
       dec' = [ok |-> r.ok, exc |-> r.exc, none |-> FALSE, v |-> r.value,
               offset |-> r.offset]
    /\ upc' = "u29done"
    /\ UNCHANGED <<value, enc, tail, u_buf, u_off, u_str, gvars, dvars, evars, wvars, avars, mvars>>

(* dec := _parse_amf3_int_after_key(b"gxp" + b"\x04" + enc.bytes + tail, b"gxp") *)
CallParseAmf3Int ==
    /\ upc = "int"
    /\ LET r == _parse_amf3_int_after_key(K_gxp \o <<4>> \o enc.bytes \o tail, K_gxp) IN
       dec' = [ok |-> r.ok, exc |-> r.exc, none |-> r.none, v |-> r.v, offset |-> 0]
    /\ upc' = "intdone"
    /\ UNCHANGED <<value, enc, tail, u_buf, u_off, u_str, gvars, dvars, evars, wvars, avars, mvars>>

NextU29 == CallEncodeU29 \/ CallEncodeAmf3Int \/ CallDecodeU29 \/ CallParseAmf3Int

SpecU29 == InitU29 /\ [][NextU29]_vars

(* _decode_u29 on arbitrary bytes: buffers of up to MaxBuf bytes, read at an offset *)
RawBytes == {0, 127, 128, 129, 255}
RawBufs == UNION {[1..n -> RawBytes] : n \in 0..MaxBuf}
RawOffsets == {0, 1, 2}

InitU29Raw ==
    /\ IdleGuard /\ IdleDecode /\ IdleEncode /\ IdleEnv /\ IdleAgent /\ IdleServer
    /\ upc = "raw"
    /\ value = 0 /\ enc = NoBytes /\ tail = <<>> /\ dec = NoInt
    /\ u_buf \in RawBufs
    /\ u_off \in RawOffsets
    /\ u_str = NoStr

(* dec := _decode_u29(u_buf, u_off) *)
CallDecodeRaw ==
    /\ upc = "raw"
    /\ \E r \in {_decode_u29(u_buf, u_off)} :
          dec' = [ok |-> r.ok, exc |-> r.exc, none |-> FALSE, v |-> r.value,
                  offset |-> r.offset]
    /\ upc' = "rawdone"
    /\ UNCHANGED <<value, enc, tail, u_buf, u_off, u_str, gvars, dvars, evars, wvars, avars, mvars>>

NextU29Raw == CallDecodeRaw

SpecU29Raw == InitU29Raw /\ [][NextU29Raw]_vars

(* _decode_amf3_string on arbitrary bytes, and on what _encode_amf3_utf8_vr builds. *)
(* The bytes of 0x80 and more in StrBytes are no UTF-8 lead bytes, so a payload     *)
(* that holds one is not valid UTF-8.                                               *)
StrBytes == {1, 4, 5, 6, 129, 255}
StrBufs == UNION {[1..n -> StrBytes] : n \in 0..MaxBuf}
StrTexts == {<<>>, <<65>>, <<6, 65>>, [i \in 1..64 |-> 65]}

InitStr ==
    /\ IdleGuard /\ IdleDecode /\ IdleEncode /\ IdleEnv /\ IdleAgent /\ IdleServer
    /\ value = 0 /\ enc = NoBytes /\ dec = NoInt /\ u_str = NoStr
    /\ \/ upc = "sraw" /\ tail = <<>> /\ u_buf \in StrBufs /\ u_off \in RawOffsets
       \/ upc = "stext" /\ tail \in StrTexts /\ u_buf = <<>> /\ u_off = 0

(* u_buf := _encode_amf3_utf8_vr(tail, with_marker) *)
CallEncodeString ==
    /\ upc = "stext"
    /\ \E with_marker \in BOOLEAN :
         \E r \in {_encode_amf3_utf8_vr(tail, with_marker)} :
            /\ r.ok
            /\ u_buf' = r.bytes
            /\ upc' = IF with_marker THEN "senc" ELSE "sbare"
    /\ UNCHANGED <<value, enc, tail, dec, u_off, u_str, gvars, dvars, evars, wvars, avars, mvars>>

(* u_str := _decode_amf3_string(u_buf, u_off) *)
CallDecodeString ==
    /\ upc \in {"sraw", "senc"}
    /\ u_str' = _decode_amf3_string(u_buf, u_off)
    /\ upc' = IF upc = "sraw" THEN "sdone" ELSE "sencdone"
    /\ UNCHANGED <<value, enc, tail, dec, u_buf, u_off, gvars, dvars, evars, wvars, avars, mvars>>

NextStr == CallEncodeString \/ CallDecodeString

SpecStr == InitStr /\ [][NextStr]_vars

\* C4: for every n in [0, 0x1FFFFFFF], _decode_u29(_encode_u29(n), 0) returns n and
\* the returned offset is the number of encoded bytes (whatever follows them in the
\* buffer); for every n < 0 or n > 0x1FFFFFFF, _encode_u29 fails.
C4_U29RoundTrip ==
    /\ upc \in {"u29", "u29done", "u29failed"} =>
           (enc.ok <=> (value >= 0 /\ value <= 536870911))
    /\ upc = "u29failed" => (enc.exc = "ValueError" /\ enc.bytes = <<>>)
    /\ upc = "u29done" =>
           (dec.ok /\ dec.v = value /\ dec.offset = Len(enc.bytes))

C4_Witness ==
    /\ upc = "u29done" /\ value = 536870911 /\ Len(enc.bytes) = 4
    /\ tail = <<255>> /\ dec.v = 536870911

\* C5: for every n in [-2^28, 2^28-1], reading the bytes of _encode_amf3_int(n) as a
\* U29 and subtracting 2^29 when bit 2^28 is set (as _parse_amf3_int_after_key does)
\* returns n; for every n outside that range _encode_amf3_int fails.
C5_Amf3IntRoundTrip ==
    /\ upc \in {"int", "intdone", "intfailed"} =>
           (enc.ok <=> (value >= -268435456 /\ value <= 268435455))
    /\ upc = "intfailed" => (enc.exc = "ValueError" /\ enc.bytes = <<>>)
    /\ upc = "intdone" => (dec.ok /\ ~dec.none /\ dec.v = value)

C5_Witness ==
    /\ upc = "intdone" /\ value = -268435456 /\ dec.v = -268435456
    /\ enc.bytes = <<192, 128, 128, 0>>

-----------------------------------------------------------------------------
(* harness/env: tower bookkeeping of BloonsWebEnv (web_env.py) over menu_nav.py.   *)
(* The browser and the OCR reader are the environment of the model: every          *)
(* _update_state() caches a cash reading chosen from OcrReadings, and a UI step     *)
(* (a Playwright click, a screenshot) either returns or raises.                    *)

(* menu_nav.TOWERS: base cost and the costs of the four tiers of each path *)
TOWERS ==
    [name \in {"dart_monkey", "tack_shooter"} |->
        IF name = "dart_monkey"
        THEN [cost |-> 200, path1 |-> <<90, 120, 500, 1500>>, path2 |-> <<140, 170, 330, 8000>>]
        ELSE [cost |-> 360, path1 |-> <<210, 300, 500, 2500>>, path2 |-> <<100, 225, 680, 2700>>]]

MONKEY_LANE_ZONES ==
    << <<198, 215, 508, 256>>, <<245, 126, 619, 167>>, <<575, 126, 615, 435>>,
       <<379, 396, 606, 435>>, <<380, 227, 504, 427>>, <<574, 219, 731, 264>>,
       <<30, 308, 179, 349>>, <<272, 312, 317, 612>>, <<30, 414, 173, 612>> >>

TOWER_EXCLUSION_RADIUS == 40

NoTier == [none |-> TRUE, cost |-> 0]

(* bug variant: the specialization rule is left out *)
next_upgrade_no_lock(tower_name, path, current_level, other_path_level) ==
    IF tower_name \notin DOMAIN TOWERS THEN NoTier
    ELSE LET upgrades == IF path = 1 THEN TOWERS[tower_name].path1
                                     ELSE TOWERS[tower_name].path2
         IN  IF current_level < Len(upgrades)
             THEN [none |-> FALSE, cost |-> upgrades[current_level + 1]]
             ELSE NoTier

(* next_upgrade: the next UpgradeTier of a path, or None when maxed or locked *)
next_upgrade(tower_name, path, current_level, other_path_level) ==
    IF tower_name \notin DOMAIN TOWERS THEN NoTier
    ELSE IF current_level + 1 > 2 /\ other_path_level > 2 THEN NoTier
    ELSE LET upgrades == IF path = 1 THEN TOWERS[tower_name].path1
                                     ELSE TOWERS[tower_name].path2
         IN  IF current_level < Len(upgrades)
             THEN [none |-> FALSE, cost |-> upgrades[current_level + 1]]
             ELSE NoTier

(* validate_placement: inside a zone, and math.hypot(dx, dy) >= the exclusion      *)
(* radius for every placed tower (compared on the squares, coordinates being       *)
(* integers)                                                                       *)
validate_placement(x, y, placed_towers, tower_name) ==
    IF ~\E i \in 1..Len(MONKEY_LANE_ZONES) :
            /\ MONKEY_LANE_ZONES[i][1] <= x /\ x <= MONKEY_LANE_ZONES[i][3]
            /\ MONKEY_LANE_ZONES[i][2] <= y /\ y <= MONKEY_LANE_ZONES[i][4]
    THEN [ok |-> FALSE, reason |-> "not in any valid placement zone"]
    ELSE IF \E t \in DOMAIN placed_towers :
                ((x - placed_towers[t].x) * (x - placed_towers[t].x))
              + ((y - placed_towers[t].y) * (y - placed_towers[t].y))
              < TOWER_EXCLUSION_RADIUS * TOWER_EXCLUSION_RADIUS
    THEN [ok |-> FALSE, reason |-> "too close"]
    ELSE [ok |-> TRUE, reason |-> ""]

(* PlacedTower(id, name, x, y, upgrades=[0, 0]), target defaulting to "first" *)
PlacedTower(id, name, x, y) ==
    [id |-> id, name |-> name, x |-> x, y |-> y, upgrades |-> <<0, 0>>, target |-> "first"]

(* the tracking fields of a BloonsWebEnv *)
Self ==
    [_next_tower_id |-> _next_tower_id, _placed_towers |-> _placed_towers,
     _last_game_state |-> _last_game_state]

(* _update_state(): the reading of the fresh screenshot replaces the cached one *)
_update_state(self, reading) == [self EXCEPT !._last_game_state = [cash |-> reading]]

(* read_cash(): the cached cash *)
read_cash(self) == self._last_game_state.cash

(* self._placed_towers[tid] = tower ; del self._placed_towers[tid] *)
SetItem(d, tid, tower) == [t \in DOMAIN d \cup {tid} |-> IF t = tid THEN tower ELSE d[t]]
DelItem(d, tid) == [t \in DOMAIN d \ {tid} |-> d[t]]

(* how a call leaves: an exception at some stage, or a return *)
Raised(self, exc, stage) ==
    [self |-> self, ok |-> FALSE, exc |-> exc, stage |-> stage, tid |-> 0]
Returned(self, tid) ==
    [self |-> self, ok |-> TRUE, exc |-> "none", stage |-> "done", tid |-> tid]

(* bug variant: a failed placement forgets the tower but keeps the id it took *)
place_tower_keeps_id(self, tower_name, x, y, ocr, ui) ==
    IF tower_name \notin DOMAIN TOWERS
    THEN Raised(self, "ValueError", "args")
    ELSE IF ~validate_placement(x, y, self._placed_towers, tower_name).ok
    THEN Raised(self, "ValueError", "args")
    ELSE LET cash == read_cash(self) IN
    IF ~cash.none /\ cash.v < TOWERS[tower_name].cost
    THEN Raised(self, "ValueError", "afford")
    ELSE LET s1 == _update_state(self, ocr[1])
             cash_before == ocr[1]
             tid == self._next_tower_id
             s2 == [s1 EXCEPT !._next_tower_id = @ + 1]
             s3 == [s2 EXCEPT !._placed_towers = SetItem(@, tid, PlacedTower(tid, tower_name, x, y))]
             s4 == _update_state(s3, ocr[2])
             cash_after == ocr[2]
         IN  IF ui = "click" THEN Raised(s2, "RuntimeError", "click")
             ELSE IF ui = "ocr" THEN Raised(s3, "RuntimeError", "ocr")
             ELSE IF cash_before = cash_after
             THEN Raised([s4 EXCEPT !._placed_towers = DelItem(@, tid)],
                         "ValueError", "unchanged")
             ELSE Returned(s4, tid)

(* place_tower with tower ids taken from the number of tracked towers *)
place_tower_id_from_count(self, tower_name, x, y, ocr, ui) ==
    IF tower_name \notin DOMAIN TOWERS
    THEN Raised(self, "ValueError", "args")
    ELSE IF ~validate_placement(x, y, self._placed_towers, tower_name).ok
    THEN Raised(self, "ValueError", "args")
    ELSE LET cash == read_cash(self) IN
    IF ~cash.none /\ cash.v < TOWERS[tower_name].cost
    THEN Raised(self, "ValueError", "afford")
    ELSE LET s1 == _update_state(self, ocr[1])
             cash_before == ocr[1]
             tid == Cardinality(DOMAIN self._placed_towers) + 1
             s2 == [s1 EXCEPT !._next_tower_id = tid + 1]
             s3 == [s2 EXCEPT !._placed_towers = SetItem(@, tid, PlacedTower(tid, tower_name, x, y))]
             s4 == _update_state(s3, ocr[2])
             cash_after == ocr[2]
         IN  IF ui = "click" THEN Raised(s2, "RuntimeError", "click")
             ELSE IF ui = "ocr" THEN Raised(s3, "RuntimeError", "ocr")
             ELSE IF cash_before = cash_after
             THEN Raised([s4 EXCEPT !._placed_towers = DelItem(@, tid),
                                    !._next_tower_id = @ - 1],
                         "ValueError", "unchanged")
             ELSE Returned(s4, tid)

(* BloonsWebEnv.place_tower.  ocr = the readings of its two _update_state() calls; *)
(* ui = "click" when menu_nav.place_tower raises, "ocr" when the second            *)
(* _update_state() raises, "ok" when every UI step returns.                        *)
place_tower(self, tower_name, x, y, ocr, ui) ==
    IF tower_name \notin DOMAIN TOWERS
    THEN Raised(self, "ValueError", "args")
    ELSE IF ~validate_placement(x, y, self._placed_towers, tower_name).ok
    THEN Raised(self, "ValueError", "args")
    ELSE LET cash == read_cash(self) IN
    IF ~cash.none /\ cash.v < TOWERS[tower_name].cost
    THEN Raised(self, "ValueError", "afford")
    ELSE LET s1 == _update_state(self, ocr[1])
             cash_before == ocr[1]
             tid == self._next_tower_id
             s2 == [s1 EXCEPT !._next_tower_id = @ + 1]
             s3 == [s2 EXCEPT !._placed_towers = SetItem(@, tid, PlacedTower(tid, tower_name, x, y))]
             s4 == _update_state(s3, ocr[2])
             cash_after == ocr[2]
         IN  IF ui = "click" THEN Raised(s2, "RuntimeError", "click")
             ELSE IF ui = "ocr" THEN Raised(s3, "RuntimeError", "ocr")
             ELSE IF cash_before = cash_after
             THEN Raised([s4 EXCEPT !._placed_towers = DelItem(@, tid),
                                    !._next_tower_id = @ - 1],
                         "ValueError", "unchanged")
             ELSE Returned(s4, tid)

(* tower.upgrades[path - 1] += delta *)
Bump(tower, path, delta) == [tower EXCEPT !.upgrades[path] = @ + delta]

(* BloonsWebEnv.upgrade_tower.  ui = "click" when select_tower_at or click_upgrade *)
(* raises, "ocr" when deselect or the second _update_state() raises; click_upgrade *)
(* itself raises ValueError for a path other than 1 and 2.                          *)
(* tower.upgrades[path - 1]: the position (from 1) in the two-element list that     *)
(* Python's index path - 1 names; outside -2..1 the index raises IndexError         *)
PyIndex(path) == ((path - 1) % 2) + 1

upgrade_tower(self, tower_id, path, ocr, ui) ==
    IF tower_id \notin DOMAIN self._placed_towers
    THEN Raised(self, "ValueError", "args")
    ELSE IF path - 1 \notin -2..1 THEN Raised(self, "IndexError", "args")
    ELSE LET tower == self._placed_towers[tower_id]
             other_path == IF path = 1 THEN 2 ELSE 1
             nxt == next_upgrade(tower.name, path, tower.upgrades[PyIndex(path)],
                                 tower.upgrades[other_path])
             cash == read_cash(self)
         IN
    IF nxt.none THEN Raised(self, "ValueError", "args")
    ELSE IF ~cash.none /\ cash.v < nxt.cost
    THEN Raised(self, "ValueError", "afford")
    ELSE LET s1 == _update_state(self, ocr[1])
             cash_before == ocr[1]
             s2 == [s1 EXCEPT !._placed_towers[tower_id] = Bump(@, PyIndex(path), 1)]
             s3 == _update_state(s2, ocr[2])
             cash_after == ocr[2]
         IN  IF ui = "click" THEN Raised(s1, "RuntimeError", "click")
             ELSE IF path \notin {1, 2} THEN Raised(s1, "ValueError", "click")
             ELSE IF ui = "ocr" THEN Raised(s2, "RuntimeError", "ocr")
             ELSE IF cash_before = cash_after
             THEN Raised([s3 EXCEPT !._placed_towers[tower_id] = Bump(@, PyIndex(path), -1)],
                         "ValueError", "unchanged")
             ELSE Returned(s3, 0)

(* BloonsWebEnv.sell_tower.  ui = "click" when select_tower_at or click_sell       *)
(* raises, "ocr" when _update_state() raises.                                      *)
sell_tower(self, tower_id, ocr, ui) ==
    IF tower_id \notin DOMAIN self._placed_towers
    THEN Raised(self, "ValueError", "args")
    ELSE LET s1 == [self EXCEPT !._placed_towers = DelItem(@, tower_id)]
             s2 == _update_state(s1, ocr[1])
         IN  IF ui = "click" THEN Raised(self, "RuntimeError", "click")
             ELSE IF ui = "ocr" THEN Raised(s1, "RuntimeError", "ocr")
             ELSE Returned(s2, 0)

(* str.lower() on the target names the model passes *)
Lower(target) == IF target = "Strong" THEN "strong" ELSE target

(* BloonsWebEnv.set_target.  ui = "click" when select_tower_at or click_target     *)
(* raises, "ocr" when deselect or _update_state() raises.                          *)
set_target(self, tower_id, target, ocr, ui) ==
    IF tower_id \notin DOMAIN self._placed_towers
    THEN Raised(self, "ValueError", "args")
    ELSE LET s1 == [self EXCEPT !._placed_towers[tower_id].target = Lower(target)]
             s2 == _update_state(s1, ocr[1])
         IN  IF ui = "click" THEN Raised(self, "RuntimeError", "click")
             ELSE IF ui = "ocr" THEN Raised(s1, "RuntimeError", "ocr")
             ELSE Returned(s2, 0)

(* inputs of the calls *)
Spots == {<<300, 240>>, <<400, 240>>, <<0, 0>>}
PlaceInputs == {<<"dart_monkey", spot>> : spot \in Spots} \cup {<<"super_monkey_x", <<300, 240>>>>}
OcrReadings == {CashNone, Cash(50), Cash(9000)}
TargetInputs == {"Strong"}

(* how the browser and the OCR reader behave during one call: ui, and the readings  *)
(* of the _update_state() calls that return.  A purchase makes two such calls, the *)
(* second after the UI steps; a sale or a retargeting makes one, after them.       *)
PurchaseRuns ==
    {<<"ok", r1, r2>> : r1 \in OcrReadings, r2 \in OcrReadings}
    \cup {<<ui, r1>> : ui \in {"click", "ocr"}, r1 \in OcrReadings}
OtherRuns == {<<"ok", r1>> : r1 \in OcrReadings} \cup {<<"click">>, <<"ocr">>}
Ui(run) == run[1]
Ocr(run) == Tail(run)

(* a tracked id, or the one no tower has had yet *)
TowerIdInputs == (DOMAIN _placed_towers) \cup {_next_tower_id}

(* the towers the model buys upgrades for: those with fewer than MaxUpgrades *)
UpgradeIdInputs ==
    {t \in TowerIdInputs :
        t \in DOMAIN _placed_towers =>
            _placed_towers[t].upgrades[1] + _placed_towers[t].upgrades[2] < MaxUpgrades}

(* the state the call leaves and what its caller saw of it *)
Leave(op, r) ==
    /\ _next_tower_id' = r.self._next_tower_id
    /\ _placed_towers' = r.self._placed_towers
    /\ _last_game_state' = r.self._last_game_state
    /\ w_last' = [op |-> op, ok |-> r.ok, exc |-> r.exc, stage |-> r.stage, tid |-> r.tid]
    /\ UNCHANGED <<w_pc, uvars, gvars, dvars, evars, avars, mvars>>

InitEnv ==
    /\ IdleU29 /\ IdleGuard /\ IdleDecode /\ IdleEncode /\ IdleAgent /\ IdleServer
    /\ w_pc = "ready" /\ _next_tower_id = 1 /\ _placed_towers = NoTowers
    /\ _last_game_state = GameState /\ returned_ids = <<>>
    /\ w_last = NoCall

(* reset(): the tracking fields return to their initial values *)
Reset ==
    /\ w_pc = "ready"
    /\ _next_tower_id' = 1 /\ _placed_towers' = NoTowers /\ _last_game_state' = GameState
    /\ returned_ids' = <<>> /\ w_last' = NoCall
    /\ UNCHANGED <<w_pc, uvars, gvars, dvars, evars, avars, mvars>>

CallPlaceTower ==
    /\ w_pc = "ready" /\ _next_tower_id <= MaxTowerId
    /\ \E self \in {Self} : \E r \in {place_tower(self, call[1], call[2][1], call[2][2], Ocr(run), Ui(run)) :
                    call \in PlaceInputs, run \in PurchaseRuns} :
             /\ Leave("place_tower", r)
             /\ returned_ids' = IF r.ok THEN Append(returned_ids, r.tid) ELSE returned_ids

CallUpgradeTower ==
    /\ w_pc = "ready"
    /\ \E self \in {Self} : \E r \in {upgrade_tower(self, tower_id, path, Ocr(run), Ui(run)) :
                    tower_id \in UpgradeIdInputs, path \in {1, 2}, run \in PurchaseRuns} :
             /\ Leave("upgrade_tower", r)
             /\ UNCHANGED returned_ids

CallSellTower ==
    /\ w_pc = "ready"
    /\ \E self \in {Self} : \E r \in {sell_tower(self, tower_id, Ocr(run), Ui(run)) :
                    tower_id \in TowerIdInputs, run \in OtherRuns} :
             /\ Leave("sell_tower", r)
             /\ UNCHANGED returned_ids

CallSetTarget ==
    /\ w_pc = "ready"
    /\ \E self \in {Self} : \E r \in {set_target(self, tower_id, target, Ocr(run), Ui(run)) :
                    tower_id \in TowerIdInputs, target \in TargetInputs, run \in OtherRuns} :
             /\ Leave("set_target", r)
             /\ UNCHANGED returned_ids

NextEnv == Reset \/ CallPlaceTower \/ CallUpgradeTower \/ CallSellTower \/ CallSetTarget

SpecEnv == InitEnv /\ [][NextEnv]_vars

(* the step is a call of op that got past its argument checks and whose UI steps    *)
(* all returned                                                                    *)
Purchase(op) ==
    /\ w_last'.op = op
    /\ w_last'.stage \in {"afford", "unchanged", "done"}

Levels(tower) == tower.upgrades[1] + tower.upgrades[2]

(* One tower and every upgrade_tower call on it: any path argument, any OCR run.   *)
(* The model places a single tower; upgrades go on for as long as the code allows. *)
PathInputs == {-2, -1, 0, 1, 2, 3}
FirstTowerInputs == {<<"dart_monkey", <<300, 240>>>>, <<"tack_shooter", <<400, 240>>>>}

CallPlaceFirstTower ==
    /\ w_pc = "ready" /\ _placed_towers = NoTowers /\ _next_tower_id <= MaxTowerId
    /\ \E self \in {Self} : \E r \in {place_tower(self, call[1], call[2][1], call[2][2], Ocr(run), Ui(run)) :
                    call \in FirstTowerInputs, run \in PurchaseRuns} :
             /\ Leave("place_tower", r)
             /\ returned_ids' = IF r.ok THEN Append(returned_ids, r.tid) ELSE returned_ids

CallUpgradeAnyPath ==
    /\ w_pc = "ready"
    /\ \E self \in {Self} : \E r \in {upgrade_tower(self, tower_id, path, Ocr(run), Ui(run)) :
                    tower_id \in TowerIdInputs, path \in PathInputs, run \in PurchaseRuns} :
             /\ Leave("upgrade_tower", r)
             /\ UNCHANGED returned_ids

NextUpgrades == CallPlaceFirstTower \/ CallUpgradeAnyPath

SpecUpgrades == InitEnv /\ [][NextUpgrades]_vars

-----------------------------------------------------------------------------
(* scripts/run_agent.py: run_agent's loop over ticks and, in a tick, the inner  *)
(* action loop.  A response of the model is the list of its tool calls, each    *)
(* "start_round" or some other tool ("act"); responses hold up to MaxToolCalls  *)
(* calls.                                                                       *)

MAX_ACTIONS_PER_TICK == 25

Responses == UNION {[1..n -> {"act", "start_round"}] : n \in 0..MaxToolCalls}

InitAgent ==
    /\ IdleU29 /\ IdleGuard /\ IdleDecode /\ IdleEncode /\ IdleEnv /\ IdleServer
    /\ a_pc = "idle" /\ actions_this_tick = 0 /\ round_started_this_tick = FALSE
    /\ a_calls = <<>>

(* top of the outer loop down to the inner loop: the counters of the tick are reset *)
TickStart ==
    /\ a_pc \in {"idle", "tick_end"}
    /\ actions_this_tick' = 0
    /\ round_started_this_tick' = FALSE
    /\ a_calls' = <<>>
    /\ a_pc' = "llm"
    /\ UNCHANGED <<uvars, gvars, dvars, evars, wvars, mvars>>

(* "while actions_this_tick < MAX_ACTIONS_PER_TICK": call_llm; a response without *)
(* tool calls ends the tick                                                        *)
CallLlm ==
    /\ a_pc = "llm" /\ actions_this_tick < MAX_ACTIONS_PER_TICK
    /\ \E tool_calls \in Responses :
          /\ a_calls' = tool_calls
          /\ a_pc' = IF tool_calls = <<>> THEN "tick_end" ELSE "calls"
    /\ UNCHANGED <<actions_this_tick, round_started_this_tick,
                   uvars, gvars, dvars, evars, wvars, mvars>>

(* the while condition is false: the inner loop is left *)
CapReached ==
    /\ a_pc = "llm" /\ ~(actions_this_tick < MAX_ACTIONS_PER_TICK)
    /\ a_pc' = "tick_end"
    /\ UNCHANGED <<actions_this_tick, round_started_this_tick, a_calls,
                   uvars, gvars, dvars, evars, wvars, mvars>>

(* one iteration of "for tc in msg['tool_calls']": execute_tool, count it, and *)
(* leave both loops after start_round                                           *)
ExecuteTool ==
    /\ a_pc = "calls" /\ a_calls # <<>>
    /\ actions_this_tick' = actions_this_tick + 1
    /\ a_calls' = Tail(a_calls)
    /\ round_started_this_tick' = (Head(a_calls) = "start_round")
    /\ a_pc' = IF Head(a_calls) = "start_round" THEN "tick_end"
               ELSE IF Tail(a_calls) = <<>> THEN "llm"
               ELSE "calls"
    /\ UNCHANGED <<uvars, gvars, dvars, evars, wvars, mvars>>

NextAgent == TickStart \/ CallLlm \/ CapReached \/ ExecuteTool

SpecAgent == InitAgent /\ [][NextAgent]_vars

-----------------------------------------------------------------------------
(* harness/mcp_server.py: run_server over the lines of stdin.  A line is blank, *)
(* not JSON, a JSON value that is no object (an array, a number), or a JSON      *)
(* object; of an object the model keeps "id" (None when absent or null),         *)
(* "method", whether "params" is an object or null, and whether the tool the     *)
(* call names returns or raises an Exception inside handle_tool_call.            *)

IdNone == [none |-> TRUE, v |-> 0]
RequestId(n) == [none |-> FALSE, v |-> n]

Line(json, id, method, params, tool) ==
    [json |-> json, id |-> id, method |-> method, params |-> params, tool |-> tool]
Lines ==
    {Line(j, IdNone, "", "dict", "returns") : j \in {"blank", "invalid", "array", "number"}}
    \cup {Line("object", id, method, "dict", "returns") :
             id \in {IdNone, RequestId(7)}, method \in {"initialize", "tools/list", "ping"}}
    \cup {Line("object", id, "tools/call", "dict", tool) :
             id \in {IdNone, RequestId(7)}, tool \in {"returns", "raises"}}
    \cup {Line("object", id, "tools/call", "null", "returns") : id \in {IdNone, RequestId(7)}}
StdinInputs == UNION {[1..n -> Lines] : n \in 0..MaxLines}

(* handle_tool_call: the tool's result, or the isError result made from its Exception *)
handle_tool_call(tool) == [isError |-> tool = "raises"]

(* the messages _respond and _error_response write *)
_respond(id, result) == [id |-> id.v, kind |-> "result", code |-> 0, isError |-> result.isError]
_error_response(id, code) == [id |-> id.v, kind |-> "error", code |-> code, isError |-> FALSE]

(* the body of "for line in sys.stdin" for one line: what it writes, and whether an *)
(* exception leaves run_server (req.get on a value that is no dict)                  *)
ServeLine(line) ==
    IF line.json \in {"blank", "invalid"} THEN [out |-> <<>>, raised |-> FALSE]
    ELSE IF line.json # "object" THEN [out |-> <<>>, raised |-> TRUE]
    ELSE IF line.id.none THEN [out |-> <<>>, raised |-> FALSE]
    ELSE IF line.method = "initialize"
        THEN [out |-> <<_respond(line.id, [isError |-> FALSE])>>, raised |-> FALSE]
    ELSE IF line.method = "tools/list"
        THEN [out |-> <<_respond(line.id, [isError |-> FALSE])>>, raised |-> FALSE]
    ELSE IF line.method = "tools/call"
        THEN IF line.params # "dict" THEN [out |-> <<>>, raised |-> TRUE]
             ELSE [out |-> <<_respond(line.id, handle_tool_call(line.tool))>>,
                   raised |-> FALSE]
    ELSE [out |-> <<_error_response(line.id, -32601)>>, raised |-> FALSE]

InitServer ==
    /\ IdleU29 /\ IdleGuard /\ IdleDecode /\ IdleEncode /\ IdleEnv /\ IdleAgent
    /\ m_pc = "serving" /\ m_stdin \in StdinInputs /\ m_taken = <<>> /\ m_stdout = <<>>

(* one iteration of the loop over stdin *)
ReadLine ==
    /\ m_pc = "serving" /\ m_stdin # <<>>
    /\ \E r \in {ServeLine(Head(m_stdin))} :
          /\ m_stdout' = m_stdout \o r.out
          /\ m_pc' = IF r.raised THEN "crashed" ELSE "serving"
    /\ m_taken' = Append(m_taken, Head(m_stdin))
    /\ m_stdin' = Tail(m_stdin)
    /\ UNCHANGED <<uvars, gvars, dvars, evars, wvars, avars>>

(* stdin is closed: the loop ends and run_server returns *)
StdinClosed ==
    /\ m_pc = "serving" /\ m_stdin = <<>>
    /\ m_pc' = "closed"
    /\ UNCHANGED <<m_stdin, m_taken, m_stdout, uvars, gvars, dvars, evars, wvars, avars>>

NextServer == ReadLine \/ StdinClosed

SpecServer == InitServer /\ [][NextServer]_vars

\* C19: when OCR yields no cash value (the cached cash is None at the affordability
\* check and the reading after the purchase is None too), a place_tower call that
\* passes its argument checks returns the next tower id and tracks the new tower,
\* and an upgrade_tower call that passes them returns with the upgrade recorded.
C19_PurchaseWithoutCashReading ==
    [][ /\ (Purchase("place_tower") /\ _last_game_state.cash.none
                                    /\ _last_game_state'.cash.none)
            => /\ w_last'.ok
               /\ w_last'.tid = _next_tower_id
               /\ w_last'.tid \in DOMAIN _placed_towers'
        /\ (Purchase("upgrade_tower") /\ _last_game_state.cash.none
                                      /\ _last_game_state'.cash.none)
            => /\ w_last'.ok
               /\ \E t \in DOMAIN _placed_towers :
                     Levels(_placed_towers'[t]) = Levels(_placed_towers[t]) + 1
      ]_vars

Distinct(ids) == \A i, j \in 1..Len(ids) : i < j => ids[i] # ids[j]

\* C20: since reset, the ids returned by successful place_tower calls are pairwise
\* distinct (also when towers were sold or placements failed in between), every
\* tracked tower is stored under its own id, and every tracked id is below
\* _next_tower_id.
C20_TowerIdsUnique ==
    /\ Distinct(returned_ids)
    /\ \A t \in DOMAIN _placed_towers :
          /\ _placed_towers[t].id = t
          /\ t < _next_tower_id

C20_Witness ==
    /\ Len(returned_ids) = 2
    /\ returned_ids[1] \notin DOMAIN _placed_towers
    /\ returned_ids[2] \in DOMAIN _placed_towers
    /\ w_last.op = "place_tower" /\ w_last.ok /\ w_last.tid = returned_ids[2]

-----------------------------------------------------------------------------
(* the length the U29 form of n must have *)
MinimalLen(n) == IF n < 128 THEN 1 ELSE IF n < 16384 THEN 2 ELSE IF n < 2097152 THEN 3 ELSE 4

\* C23: for every n in [0, 0x1FFFFFFF], _encode_u29(n) has length 1 if n < 0x80, 2 if
\* n < 0x4000, 3 if n < 0x200000 and 4 otherwise; every byte except the last has its
\* high bit set, and in the 1-, 2- and 3-byte forms the last byte has its high bit
\* clear.
C23_U29MinimalForm ==
    (upc \in {"u29", "u29done"}) =>
        /\ value >= 0 /\ value <= 536870911
        /\ Len(enc.bytes) = MinimalLen(value)
        /\ \A i \in 1..(Len(enc.bytes) - 1) : BitSet(enc.bytes[i], 7)
        /\ Len(enc.bytes) < 4 => ~BitSet(enc.bytes[Len(enc.bytes)], 7)
        /\ \A i \in 1..Len(enc.bytes) : enc.bytes[i] \in 0..255

C23_Witness ==
    /\ upc = "u29" /\ value = 2097152 /\ enc.bytes = <<128, 192, 128, 0>>

(* the bytes of u_buf from u_off on, and the count of them a U29 read takes: up to   *)
(* the first of the first three with a clear high bit, else four                   *)
Rest == SubSeq(u_buf, u_off + 1, Len(u_buf))
Stops == {k \in 1..3 : k <= Len(Rest) /\ ~BitSet(Rest[k], 7)
                          /\ \A j \in 1..(k - 1) : BitSet(Rest[j], 7)}
Terminated == Stops # {} \/ Len(Rest) >= 4
Taken == IF Stops # {} THEN CHOOSE k \in Stops : TRUE ELSE 4
RECURSIVE Septs(_, _)
Septs(bs, k) == IF k = 0 THEN 0 ELSE (Septs(bs, k - 1) * 128) + (bs[k] % 128)
U29Value == IF Stops # {} THEN Septs(Rest, Taken) ELSE (Septs(Rest, 3) * 256) + Rest[4]

\* C24: _decode_u29 reads at most 4 bytes from the offset: it stops at the first of
\* the first three bytes whose high bit is clear, accumulating 7 bits per byte, and a
\* 4th byte contributes 8 bits and always terminates; it fails (ValueError) exactly
\* when the buffer ends before a terminating byte is read, and on success the
\* returned offset is the start offset plus the number of bytes read.
C24_U29DecodeSteps ==
    (upc = "rawdone") =>
        /\ dec.ok <=> Terminated
        /\ ~dec.ok => dec.exc = "ValueError"
        /\ dec.ok => /\ Taken <= 4
                     /\ dec.offset = u_off + Taken
                     /\ dec.v = U29Value

C24_Witness ==
    /\ upc = "rawdone" /\ u_buf = <<0, 129, 128, 255, 255>> /\ u_off = 1
    /\ dec.ok /\ dec.offset = 5 /\ dec.v = 4227071

(* The string at u_off of u_buf, as the claim reads it: the marker byte, the U29 *)
(* length header after it, the declared length, the payload bytes.               *)
StrBadMarker == u_off >= Len(u_buf) \/ u_buf[u_off + 1] # 6
StrHeader == _decode_u29(u_buf, u_off + 1)
StrDeclared == StrHeader.value \div 2
StrEnd == StrHeader.offset + StrDeclared
StrPayload == SubSeq(u_buf, StrHeader.offset + 1, StrEnd)
StrReturns == u_str.ok /\ u_str.text = StrPayload /\ u_str.end = StrEnd
StrDecoded == upc \in {"sdone", "sencdone"}
EncodedHeaderOdd ==
    /\ upc = "senc" => _decode_u29(u_buf, 1).ok /\ _decode_u29(u_buf, 1).value % 2 = 1
    /\ upc = "sbare" => _decode_u29(u_buf, 0).ok /\ _decode_u29(u_buf, 0).value % 2 = 1

\* C25 as stated: _decode_amf3_string fails when the byte at the offset is not 0x06
\* or the offset is past the end, when the header has bit 0 clear, and when the
\* declared length runs past the end of the buffer; in every other case it returns
\* the declared bytes and the offset after them.  Strings built by
\* _encode_amf3_utf8_vr have bit 0 of the header set.
C25_StringDecodeAsStated ==
    /\ StrDecoded =>
          IF StrBadMarker THEN ~u_str.ok
          ELSE IF StrHeader.ok /\ StrHeader.value % 2 = 0 THEN ~u_str.ok
          ELSE IF StrHeader.ok /\ StrEnd > Len(u_buf) THEN ~u_str.ok
          ELSE StrReturns
    /\ EncodedHeaderOdd

\* C25 amended: besides the three rejections of the claim, _decode_amf3_string also
\* fails when the length header itself is cut off by the end of the buffer and when
\* the declared bytes are not valid UTF-8; in every other case it returns the
\* declared bytes (decoded) and the offset after them.  Strings built by
\* _encode_amf3_utf8_vr have bit 0 of the header set.
C25_StringDecodeRejects ==
    /\ StrDecoded =>
          IF StrBadMarker THEN ~u_str.ok
          ELSE IF ~StrHeader.ok THEN ~u_str.ok
          ELSE IF StrHeader.value % 2 = 0 THEN ~u_str.ok
          ELSE IF StrEnd > Len(u_buf) THEN ~u_str.ok
          ELSE IF \E i \in 1..Len(StrPayload) : StrPayload[i] >= 128 THEN ~u_str.ok
          ELSE StrReturns
    /\ EncodedHeaderOdd

C25_Witness ==
    /\ upc = "sdone" /\ u_buf = <<1, 6, 5, 4, 6>> /\ u_off = 1
    /\ u_str.ok /\ u_str.text = <<4, 6>> /\ u_str.end = 5

\* C22 (as claimed): for an entry with raw_sol.value_b64 and an object profile whose
\* raw value cannot be re-decoded for the comparison (whatever the failure), encoding
\* without apply-edits returns the raw value verbatim in mode "lossless".
C22_UnparsableRawKeepsLossless ==
    (Extracted /\ HasRaw(g_entry) /\ IsDict(g_entry.profile) /\ ~g_apply
       /\ ~_extract_profile_from_raw(g_entry.raw_value.v).ok)
    => (g_out.ok /\ g_out.mode = "lossless" /\ g_out.value = g_entry.raw_value.v)

\* C28 (as claimed): every entry that decode_sol_entry decoded with an object profile,
\* handed on unchanged (null outer fields included), is encoded with apply-edits
\* without an error.
C28_RebuildTotalOnDecoderOutput ==
    (Extracted /\ DecodeSucceeded /\ g_edit = "none" /\ g_entry = g_orig
       /\ IsDict(g_orig.profile) /\ g_apply)
    => g_out.ok

(* the input of the decode run is an export map whose values are non-empty strings *)
ExportInput ==
    /\ d_payload.format = "raw_export"
    /\ \A i \in 1..Len(d_payload.entries) :
          /\ d_payload.entries[i].key.st = "str"
          /\ IsNonEmptyStr(d_payload.entries[i].value_b64)
InputMap ==
    AsSeq([i \in 1..Len(d_payload.entries) |->
              <<d_payload.entries[i].key.v, d_payload.entries[i].value_b64.v>>],
          Len(d_payload.entries))
NoFlags == ~e_include_disabled /\ ~e_allow /\ ~e_apply
PipelineIdentity ==
    /\ d_pc \notin {"rejected", "raised"}
    /\ (e_pc # "idle" /\ NoFlags) =>
          /\ e_pc \notin {"rejected", "raised"}
          /\ e_pc = "done" => (e_file.written /\ e_exit = 0 /\ e_file.map = InputMap)

\* C27 as stated: for any export map whose values are non-empty strings, a non-strict
\* decode run followed by an encode run with no flags succeeds and writes a map equal
\* to the input map, failed entries included.
C27_PipelineIdentityAsStated ==
    (ExportInput /\ ~d_strict) => PipelineIdentity

\* C27 amended: the same for any export map with at least one entry (on an empty map
\* the decode run stops with "No save entries found in input").
C27_PipelineIdentity ==
    (ExportInput /\ ~d_strict /\ Len(d_payload.entries) > 0) => PipelineIdentity

C27_Witness ==
    /\ ExportInput /\ ~d_strict /\ NoFlags /\ e_pc = "done"
    /\ Len(d_payload.entries) = 2 /\ failures = 1
    /\ d_output.entries[2].error # "none"
    /\ e_file.map = << <<KeyAt(1), B_good>>, <<KeyAt(2), B_trunc>> >>

\* C29: when place_tower or upgrade_tower finds the cash unchanged by the purchase, the
\* call raises and the tracking is as it was before the call: the same placed towers
\* with the same upgrade levels, and the same _next_tower_id.
C29_FailedPurchaseRollsBack ==
    [][ (w_last'.op \in {"place_tower", "upgrade_tower"} /\ w_last'.stage = "unchanged")
          => /\ ~w_last'.ok /\ w_last'.exc = "ValueError"
             /\ _placed_towers' = _placed_towers
             /\ _next_tower_id' = _next_tower_id
      ]_vars

C29_Witness ==
    /\ w_last.op = "place_tower" /\ w_last.stage = "unchanged" /\ ~w_last.ok
    /\ DOMAIN _placed_towers = {1} /\ _next_tower_id = 2

\* C21: after any sequence of upgrade_tower calls, returned or raised, each of the two
\* upgrade levels of every tracked tower is in 0..4 and at most one of them exceeds 2.
C21_TowerSpecialization ==
    \A t \in DOMAIN _placed_towers :
        /\ _placed_towers[t].upgrades[1] \in 0..4
        /\ _placed_towers[t].upgrades[2] \in 0..4
        /\ ~(_placed_towers[t].upgrades[1] > 2 /\ _placed_towers[t].upgrades[2] > 2)

C21_Witness ==
    /\ w_last.op = "upgrade_tower" /\ ~w_last.ok /\ w_last.stage = "args"
    /\ DOMAIN _placed_towers = {1}
    /\ _placed_towers[1].upgrades = <<4, 2>>

\* C26 (as claimed): within one tick run_agent never executes more than
\* MAX_ACTIONS_PER_TICK tool calls, however many tool calls each response holds.
C26_ActionCapPerTick == actions_this_tick <= MAX_ACTIONS_PER_TICK

(* the responses the claim asks for, line by line *)
ExpectedFor(line) ==
    IF line.json \in {"blank", "invalid"} \/ line.id.none THEN <<>>
    ELSE IF line.method \in {"initialize", "tools/list", "tools/call"}
        THEN <<[id |-> line.id.v, kind |-> "result"]>>
    ELSE <<[id |-> line.id.v, kind |-> "error"]>>
RECURSIVE Expected(_)
Expected(lines) ==
    IF lines = <<>> THEN <<>> ELSE ExpectedFor(Head(lines)) \o Expected(Tail(lines))
Written == [i \in 1..Len(m_stdout) |-> [id |-> m_stdout[i].id, kind |-> m_stdout[i].kind]]

\* C30 (as claimed): after every line read, run_server has written exactly one response
\* with the request's id for each valid-JSON line whose id is not null (a result for
\* initialize, tools/list and tools/call, error -32601 for another method) and nothing
\* for the other lines, and it goes on serving until stdin is closed.
C30_RequestResponsePairing ==
    /\ m_pc # "crashed"
    /\ Written = Expected(m_taken)
    /\ \A i \in 1..Len(m_stdout) : m_stdout[i].kind = "error" => m_stdout[i].code = -32601

====
